---- MODULE Spec2Model ----
(***************************************************************************)
(* Smart locker system: the embedded column firmware (bit-serial shift     *)
(* register driver and per-compartment motion state machine) and the       *)
(* coordinator's locker service (column registry, reservation state        *)
(* machine, pickup codes, command relay).                                  *)
(*                                                                         *)
(* The specifications share the variables:                                 *)
(*   SpecSR        - the ShiftRegister driver alone (write/read/setOutput) *)
(*   SpecFw        - one compartment's LockerControl driven by the loop    *)
(*   SpecUptime    - a sanitize cycle around the wrap of millis()          *)
(*   SpecToggle    - the commands with every output toggle, clock stopped  *)
(*   SpecConfined  - the controller without direct toggles of the UV lamp  *)
(*   SpecPins      - the shift-register bus, one pin operation at a time   *)
(*   SpecSync      - the column's announce / heartbeat / event client      *)
(*   SpecSyncLive  - the same with the loop running forever                *)
(*   SpecRegistry  - column liveness and the command relays                *)
(*   SpecOrders    - assignment, loading, pickup and the columns' events   *)
(*   SpecEvents    - every event name the event handler knows              *)
(*   SpecReconcile - heartbeats against the compartment table              *)
(*   SpecAuto      - assignment over whole banks of lockers                *)
(*   SpecRelay     - assignment and loading toward silent columns          *)
(*   SpecUnloaded  - reservations and events with no order marked loaded   *)
(*   SpecRestart   - announces and heartbeats around coordinator restarts  *)
(*   SpecRestartLive - the same with every column's heartbeats going on    *)
(*   SpecAssign    - concurrent POST /api/lockers/assign requests          *)
(***************************************************************************)
EXTENDS Integers, Sequences, FiniteSets, TLC

VARIABLES
    lk,         \* one compartment: LockerControl fields + its ShiftRegister
    now,        \* millis() on the controller
    op,         \* the operation that acted last
    ret,        \* what it returned
    registry,   \* columnRegistry: column id -> record, or NoColumn
    comps,      \* table Compartment: compartment id -> record, or NoRow
    orders,     \* table "Order": order id -> record
    clock,      \* Date.now() on the coordinator
    arg,        \* what the last operation was called on: a compartment id, a
                \* normalized pickup code, <<size>> or <<order id>>
    sent,       \* the network requests the last operation issued, in order
    used,       \* pickup codes that have validated successfully so far
    reqs,       \* in-flight assign requests (SpecAssign)
    pins,       \* the shift-register bus: pin levels and the call in progress
    net         \* the column's synchronization client and its last loop pass

fwVars    == <<lk, now>>
coordVars == <<registry, comps, orders, clock, arg, sent, used>>
busVars   == <<pins, net>>
vars      == <<lk, now, op, ret, registry, comps, orders, clock, arg, sent, used, reqs,
               pins, net>>

----------------------------------------------------------------------------
(* Bounds of the model *)

TickMs    == 11000  \* granularity of the controller's clock steps
MaxTicks  == 1      \* controller clock steps explored
WrapLeadMs == 3000  \* how long before millis() wraps the late-uptime runs start

----------------------------------------------------------------------------
(* Firmware configuration *)

OUT_DIR      == 0
OUT_LED      == 1
OUT_UVC      == 2
OUT_HEAT     == 3
OUT_STEP     == 4
OUT_SOLENOID == 5

IN_HALL_CLOSED == 0
IN_HALL_OPEN   == 1
IN_IR_BEAM     == 2
IN_OCCUPANCY   == 4
IN_TEMP        == 5
IN_SAFETY      == 6
IN_TMC_DIAG    == 7

MOTOR_TIMEOUT_MS  == 10000
SOLENOID_PULSE_MS == 50
UVC_DEFAULT_MS    == 30000
TEST_MODE         == TRUE

LockerState == {"IDLE", "UNLOCKING", "OPEN", "CLOSING", "LOCKED", "FAULT", "SANITIZING"}

Pow2(n) == 2 ^ n
\* millis() and the times derived from it are unsigned and wrap; the counter
\* is narrowed to 30 bits here so that sums stay inside TLC's integers
MillisWrap == Pow2(30)
Sub32(a, b) == (a - b + MillisWrap) % MillisWrap     \* unsigned subtraction
Add32(a, b) == (a + b) % MillisWrap                  \* unsigned addition

Bit(w, i) == (w \div Pow2(i)) % 2
SetBit(w, i, b) == w - Bit(w, i) * Pow2(i) + (IF b THEN Pow2(i) ELSE 0)

----------------------------------------------------------------------------
(* ShiftRegister: 74HC595 output chain + 74HC165 input chain               *)
(*   out    : _outputState, the word the driver believes is driven         *)
(*   inp    : _inputState, the last sampled sensor word                    *)
(*   shift  : contents of the 74HC595 shift stage                          *)
(*   driven : contents of the 74HC595 storage stage (the actuator pins)    *)
(*   mosi   : level left on SR_MOSI                                        *)
(*   cs     : level of this compartment's chip-select pin                  *)

ShiftIn(reg, b) == (reg * 2 + b) % 256

RECURSIVE ShiftByte(_, _, _)
ShiftByte(reg, data, i) ==
    IF i < 0 THEN reg
    ELSE ShiftByte(ShiftIn(reg, Bit(data, i)), data, i - 1)

\* clock pulses with SR_MOSI held: what the output chain sees during a read
RECURSIVE ClockPulses(_, _, _)
ClockPulses(reg, level, n) ==
    IF n = 0 THEN reg ELSE ClockPulses(ShiftIn(reg, level), level, n - 1)

\* the two bit loops of the driver, tabulated once over every register content
ShiftByteTable   == [reg \in 0..255 |-> [data \in 0..255 |-> ShiftByte(reg, data, 7)]]
ClockPulsesTable == [reg \in 0..255 |-> [level \in 0..1 |-> ClockPulses(reg, level, 8)]]

writeOutputs(l, data) ==
    LET sh == ShiftByteTable[l.shift][data]
    IN [l EXCEPT !.out = data, !.shift = sh, !.driven = sh,
                 !.mosi = Bit(data, 0), !.cs = 0]

readInputsNoReassert(l, in, disturb) ==
    LET latched == [l EXCEPT !.driven = l.shift]
    IN [latched EXCEPT !.shift = IF disturb THEN ClockPulsesTable[latched.shift][latched.mosi]
                                 ELSE latched.shift,
                       !.inp = in]

\* in: the word on the input chain; disturb: whether the clock pulses of the
\* read reach the output chain (the shared clock line)
readInputs(l, in, disturb) ==
    LET latched == [l EXCEPT !.driven = l.shift]
        clocked == [latched EXCEPT
                       !.shift = IF disturb THEN ClockPulsesTable[latched.shift][latched.mosi]
                                 ELSE latched.shift,
                       !.inp = in]
    IN writeOutputs(clocked, clocked.out)

setOutput(l, b, state) ==
    IF b > 7 THEN l ELSE writeOutputs(l, SetBit(l.out, b, state))

refresh(l, in, disturb) == readInputs(l, in, disturb)

----------------------------------------------------------------------------
(* LockerControl *)

getSensors(l) ==
    [doorClosed  |-> Bit(l.inp, IN_HALL_CLOSED) = 0,
     doorOpen    |-> Bit(l.inp, IN_HALL_OPEN) = 0,
     irBeamClear |-> Bit(l.inp, IN_IR_BEAM) # 0,
     occupied    |-> Bit(l.inp, IN_OCCUPANCY) = 0,
     tempOk      |-> Bit(l.inp, IN_TEMP) # 0,
     safetyOk    |-> Bit(l.inp, IN_SAFETY) # 0,
     motorFault  |-> Bit(l.inp, IN_TMC_DIAG) # 0]

isBusyNoSanitizing(l) == l.state \in {"UNLOCKING", "CLOSING"}

isBusy(l) == l.state \in {"UNLOCKING", "CLOSING", "SANITIZING"}

emergencyStopKeepLed(l) == writeOutputs(l, Bit(l.out, OUT_LED) * Pow2(OUT_LED))

emergencyStop(l) == writeOutputs(l, 0)

\* [ok, err]: err is the _lastError the check leaves behind when it fails
checkSafety(l) ==
    IF TEST_MODE THEN [ok |-> TRUE, err |-> l.lastError]
    ELSE IF ~getSensors(l).safetyOk THEN [ok |-> FALSE, err |-> "Safety tripped"]
    ELSE IF getSensors(l).motorFault THEN [ok |-> FALSE, err |-> "Motor fault"]
    ELSE [ok |-> TRUE, err |-> l.lastError]

beginAlwaysIdle(l, in, disturb) ==
    [refresh(writeOutputs(l, 0), in, disturb) EXCEPT !.state = "IDLE"]

begin(l, in, disturb) ==
    LET r == refresh(writeOutputs(l, 0), in, disturb)
        s == getSensors(r)
    IN [r EXCEPT !.state = IF s.doorClosed THEN "LOCKED"
                           ELSE IF s.doorOpen THEN "OPEN"
                           ELSE "IDLE"]

\* the CLOSING case of update() with an obstruction treated as a fault
updateClosingFaults(r, s, t) ==
    IF ~s.irBeamClear
    THEN [emergencyStop(r) EXCEPT !.lastError = "Obstruction", !.state = "FAULT"]
    ELSE IF s.doorClosed
    THEN [setOutput(setOutput(r, OUT_STEP, FALSE), OUT_LED, FALSE)
             EXCEPT !.state = "LOCKED"]
    ELSE r

\* the CLOSING case of update(): r is the locker after refresh(), s its sensors
updateClosing(r, s, t) ==
    IF ~s.irBeamClear
    THEN [setOutput(r, OUT_DIR, TRUE) EXCEPT !.lastError = "Obstruction",
                                           !.state = "UNLOCKING",
                                           !.opStart = t]
    ELSE IF s.doorClosed
    THEN [setOutput(setOutput(r, OUT_STEP, FALSE), OUT_LED, FALSE)
             EXCEPT !.state = "LOCKED"]
    ELSE IF Sub32(t, r.opStart) > MOTOR_TIMEOUT_MS
    THEN [emergencyStop(r) EXCEPT !.lastError = "Close timeout",
                                  !.state = "FAULT"]
    ELSE r

\* the UNLOCKING case of update() without its timeout
updateUnlockingNoTimeout(r, s, t) ==
    IF s.doorOpen
    THEN [setOutput(r, OUT_STEP, FALSE) EXCEPT !.state = "OPEN"]
    ELSE r

\* the UNLOCKING case of update(): r is the locker after refresh(), s its sensors
updateUnlocking(r, s, t) ==
    IF s.doorOpen
    THEN [setOutput(r, OUT_STEP, FALSE) EXCEPT !.state = "OPEN"]
    ELSE IF Sub32(t, r.opStart) > MOTOR_TIMEOUT_MS
    THEN [emergencyStop(r) EXCEPT !.lastError = "Open timeout",
                                  !.state = "FAULT"]
    ELSE r

update(l, in, disturb, t) ==
    LET r == refresh(l, in, disturb)
        s == getSensors(r)
    IN IF s.motorFault /\ r.state # "FAULT"
       THEN [emergencyStop(r) EXCEPT !.lastError = "Motor fault", !.state = "FAULT"]
       ELSE CASE r.state = "UNLOCKING" -> updateUnlocking(r, s, t)
              [] r.state = "CLOSING" -> updateClosing(r, s, t)
              [] r.state = "SANITIZING" ->
                   IF t >= r.sanitizeEnd
                   THEN [setOutput(r, OUT_UVC, FALSE) EXCEPT !.state = "LOCKED"]
                   ELSE r
              [] r.state = "OPEN" ->
                   IF s.doorClosed
                   THEN [setOutput(r, OUT_LED, FALSE) EXCEPT !.state = "LOCKED"]
                   ELSE r
              [] OTHER -> r

\* t: millis() when _opStart is taken; the solenoid pulse before it blocks for
\* SOLENOID_PULSE_MS, which is below one step of the model's clock
unlock(l, t) ==
    IF isBusy(l) THEN [l |-> [l EXCEPT !.lastError = "Busy"], ok |-> FALSE]
    ELSE IF ~checkSafety(l).ok
    THEN [l |-> [l EXCEPT !.lastError = checkSafety(l).err], ok |-> FALSE]
    ELSE LET p == setOutput(setOutput(l, OUT_SOLENOID, TRUE), OUT_SOLENOID, FALSE)
             q == setOutput(setOutput(p, OUT_DIR, TRUE), OUT_LED, TRUE)
         IN [l  |-> [q EXCEPT !.state = "UNLOCKING",
                              !.opStart = t],
             ok |-> TRUE]

lockNoBeamCheck(l, t) ==
    [l  |-> [setOutput(l, OUT_DIR, FALSE) EXCEPT !.state = "CLOSING", !.opStart = t],
     ok |-> TRUE]

lock(l, t) ==
    IF ~getSensors(l).irBeamClear
    THEN [l |-> [l EXCEPT !.lastError = "IR blocked"], ok |-> FALSE]
    ELSE IF ~checkSafety(l).ok
    THEN [l |-> [l EXCEPT !.lastError = checkSafety(l).err], ok |-> FALSE]
    ELSE [l  |-> [setOutput(l, OUT_DIR, FALSE) EXCEPT !.state = "CLOSING", !.opStart = t],
          ok |-> TRUE]

\* startSanitize() without the test of the door sensor
startSanitizeAnyDoor(l, ms, t) ==
    IF isBusy(l)
    THEN [l |-> [l EXCEPT !.lastError = "Busy"], ok |-> FALSE]
    ELSE [l  |-> [setOutput(l, OUT_UVC, TRUE) EXCEPT !.sanitizeEnd = Add32(t, ms),
                                                   !.state = "SANITIZING"],
          ok |-> TRUE]

startSanitize(l, ms, t) ==
    IF ~getSensors(l).doorClosed
    THEN [l |-> [l EXCEPT !.lastError = "Door open"], ok |-> FALSE]
    ELSE IF isBusy(l)
    THEN [l |-> [l EXCEPT !.lastError = "Busy"], ok |-> FALSE]
    ELSE [l  |-> [setOutput(l, OUT_UVC, TRUE) EXCEPT !.sanitizeEnd = Add32(t, ms),
                                                   !.state = "SANITIZING"],
          ok |-> TRUE]

setLED(l, on)    == setOutput(l, OUT_LED, on)
setUVC(l, on)    == setOutput(l, OUT_UVC, on)
\* a heater toggle wired to the UV output
setHeaterOnUvc(l, on) == setOutput(l, OUT_UVC, on)

setHeater(l, on) == setOutput(l, OUT_HEAT, on)


----------------------------------------------------------------------------
(* The controller: setup() and the calls loop() and the command endpoint   *)
(* make on one compartment                                                 *)

\* sensor words sampled from the input chain (the unused bits read high)
InputWords ==
    {w \in 0..255 : /\ Bit(w, 3) = 1 /\ Bit(w, IN_TEMP) = 1
                    /\ Bit(w, IN_OCCUPANCY) = 1 /\ Bit(w, IN_SAFETY) = 1}

\* durationMs values of a sanitize request
SanitizeDurations == {5000}

\* contents of the 74HC595 stages at power-up are not defined by the part
PowerUpWords == {0, 165, 255}

BoolStr(b) == IF b THEN "true" ELSE "false"

NoColumn == [known |-> FALSE]
NoRow    == [exists |-> FALSE]

InitLocker ==
    {[state |-> "IDLE", opStart |-> 0, sanitizeEnd |-> 0, lastError |-> "null",
      out |-> 0, inp |-> 255, shift |-> s, driven |-> d, mosi |-> 0, cs |-> 0] :
        s \in PowerUpWords, d \in PowerUpWords}

Tick ==
    /\ op # "init"
    /\ now \div TickMs < MaxTicks
    /\ now' = now + TickMs
    /\ op' = "tick" /\ ret' = "void"
    /\ UNCHANGED lk

\* setup(): ShiftRegister::begin() then LockerControl::begin()
Setup ==
    /\ op = "init"
    /\ \E in \in InputWords, disturb \in BOOLEAN :
          lk' = begin(writeOutputs(lk, 0), in, disturb)
    /\ op' = "begin" /\ ret' = "void"
    /\ UNCHANGED now

Update ==
    /\ op # "init"
    /\ \E in \in InputWords, disturb \in BOOLEAN :
          lk' = update(lk, in, disturb, now)
    /\ op' = "update" /\ ret' = "void"
    /\ UNCHANGED now

Unlock ==
    /\ op # "init"
    /\ LET r == unlock(lk, now)
       IN lk' = r.l /\ ret' = BoolStr(r.ok)
    /\ op' = "unlock"
    /\ UNCHANGED now

Lock ==
    /\ op # "init"
    /\ LET r == lock(lk, now)
       IN lk' = r.l /\ ret' = BoolStr(r.ok)
    /\ op' = "lock"
    /\ UNCHANGED now

StartSanitize ==
    /\ op # "init"
    /\ \E ms \in SanitizeDurations :
          LET r == startSanitize(lk, ms, now)
          IN lk' = r.l /\ ret' = BoolStr(r.ok)
    /\ op' = "startSanitize"
    /\ UNCHANGED now

\* output names of the toggle requests explored
OutputNames == {"led", "uvc"}

\* every output name the endpoint knows
AllOutputNames == {"led", "uvc", "heater"}

\* the LockerControl method an output name selects
SetterOf(o) ==
    CASE o = "led" -> "setLED" [] o = "uvc" -> "setUVC" [] o = "heater" -> "setHeater"

\* POST /api/locker/<i>/output with one of the given output names; the answer
\* echoes the requested state
SetOutputOf(names) ==
    /\ op # "init"
    /\ \E o \in names, on \in BOOLEAN :
          /\ lk' = CASE o = "led" -> setLED(lk, on)
                     [] o = "uvc" -> setUVC(lk, on)
                     [] o = "heater" -> setHeater(lk, on)
          /\ op' = SetterOf(o) /\ ret' = BoolStr(on)
    /\ UNCHANGED now

SetOutputCmd == SetOutputOf(OutputNames)

\* the same request with any output name
SetOutputAny == SetOutputOf(AllOutputNames)

\* the same request with any output name but "uvc"
SetIndicator == SetOutputOf(AllOutputNames \ {"uvc"})

FwInit ==
    /\ lk \in InitLocker
    /\ now = 0
    /\ op = "init" /\ ret = "void"

FwNext == Tick \/ Setup \/ Update \/ Unlock \/ Lock \/ StartSanitize \/ SetOutputCmd

\* the commands without the clock, with every output toggle
ToggleNext == Setup \/ Update \/ Unlock \/ Lock \/ StartSanitize \/ SetOutputAny

\* the controller with no direct toggle of the UV output
ConfinedNext == Tick \/ Setup \/ Update \/ Unlock \/ Lock \/ StartSanitize \/ SetIndicator

----------------------------------------------------------------------------
(* The ShiftRegister driver on its own *)

\* words on the input chain in the driver-only specification
SRInputWords == {0, 85, 170, 255}

SRWrite ==
    /\ \E data \in 0..255 : lk' = writeOutputs(lk, data)
    /\ op' = "writeOutputs" /\ ret' = "void"
    /\ UNCHANGED now

SRRead ==
    /\ op # "init"
    /\ \E in \in SRInputWords, disturb \in BOOLEAN :
          lk' = readInputs(lk, in, disturb)
    /\ op' = "readInputs" /\ ret' = "void"
    /\ UNCHANGED now

SRSetOutput ==
    /\ op # "init"
    /\ \E b \in 0..7, state \in BOOLEAN : lk' = setOutput(lk, b, state)
    /\ op' = "setOutput" /\ ret' = "void"
    /\ UNCHANGED now

SRNext == SRWrite \/ SRRead \/ SRSetOutput

----------------------------------------------------------------------------
(* The shift-register bus pin by pin: SR_CLK, SR_LATCH and SR_MOSI are      *)
(* shared, every compartment has its own chip-select pin.  A call of the   *)
(* driver is a program of pin operations that runs to its end before the   *)
(* next call starts (one thread, no interrupt handler touches the pins).   *)

\* compartments on the bus
BusLockers == 2
BusIndexes == 0..(BusLockers - 1)

\* output words written in the pin-level runs
BusWords == {0, 165}

PinOp(pin, level, part) == [pin |-> pin, level |-> level, part |-> part]

\* the for loop of writeOutputs: per bit, data on SR_MOSI then a clock pulse
WriteBits(data) ==
    [k \in 1..24 |->
        LET i == 7 - ((k - 1) \div 3)
            j == (k - 1) % 3
        IN IF j = 0 THEN PinOp("MOSI", Bit(data, i), "write")
           ELSE IF j = 1 THEN PinOp("CLK", 1, "write")
           ELSE PinOp("CLK", 0, "write")]

\* writeOutputs that leaves its chip-select asserted
WriteProgramNoRelease(data) ==
    <<PinOp("CS", 1, "write")>> \o WriteBits(data)
       \o <<PinOp("LATCH", 0, "write"), PinOp("LATCH", 1, "write")>>

\* writeOutputs: assert chip-select, shift the byte, pulse the latch, release
WriteProgram(data) ==
    <<PinOp("CS", 1, "write")>> \o WriteBits(data)
       \o <<PinOp("LATCH", 0, "write"), PinOp("LATCH", 1, "write"),
            PinOp("CS", 0, "write")>>

\* the sampling part of readInputs: latch pulse, then per bit a digitalRead
\* of the compartment's MISO pin and a clock pulse
ReadProgram ==
    <<PinOp("LATCH", 0, "read"), PinOp("LATCH", 1, "read")>>
       \o [k \in 1..24 |->
              LET j == (k - 1) % 3
              IN IF j = 0 THEN PinOp("MISO", 0, "read")
                 ELSE IF j = 1 THEN PinOp("CLK", 1, "read")
                 ELSE PinOp("CLK", 0, "read")]

\* the pin operations of the call in progress; data is the word its
\* writeOutputs shifts out (for readInputs the unchanged _outputState)
BusProgram(fn, data) ==
    IF fn = "readInputs" THEN ReadProgram \o WriteProgram(data)
    ELSE WriteProgram(data)

\* digitalWrite(pin, level) by the call on compartment idx
ApplyPinOp(p, o) ==
    CASE o.pin = "CS"    -> [p EXCEPT !.cs[p.idx] = o.level]
      [] o.pin = "CLK"   -> [p EXCEPT !.clk = o.level]
      [] o.pin = "LATCH" -> [p EXCEPT !.latch = o.level]
      [] o.pin = "MOSI"  -> [p EXCEPT !.mosi = o.level]
      [] OTHER           -> p

\* the pins after setup(): every begin() has run
PinsInit ==
    pins = [cs |-> [i \in BusIndexes |-> 0], clk |-> 0, latch |-> 1, mosi |-> 0,
            outs |-> [i \in BusIndexes |-> 0],
            fn |-> "idle", idx |-> 0, data |-> 0, pc |-> 0,
            last |-> PinOp("CS", 0, "write")]

\* a call of writeOutputs / readInputs / setOutput starts
BusCall ==
    /\ pins.fn = "idle"
    /\ \E i \in BusIndexes :
          \/ \E data \in BusWords :
                /\ pins' = [pins EXCEPT !.fn = "writeOutputs", !.idx = i, !.pc = 0,
                                        !.data = data, !.outs[i] = data]
                /\ op' = "writeOutputs"
          \/ /\ pins' = [pins EXCEPT !.fn = "readInputs", !.idx = i, !.pc = 0,
                                     !.data = pins.outs[i]]
             /\ op' = "readInputs"
          \/ \E state \in BOOLEAN :
                LET data == SetBit(pins.outs[i], OUT_LED, state)
                IN /\ pins' = [pins EXCEPT !.fn = "setOutput", !.idx = i, !.pc = 0,
                                           !.data = data, !.outs[i] = data]
                   /\ op' = "setOutput"
    /\ ret' = "void"
    /\ UNCHANGED net

\* the call in progress performs its next pin operation; after the last one
\* it returns
BusStep ==
    /\ pins.fn # "idle"
    /\ LET prog == BusProgram(pins.fn, pins.data)
           o    == prog[pins.pc + 1]
           p    == [ApplyPinOp(pins, o) EXCEPT !.pc = pins.pc + 1, !.last = o]
       IN pins' = IF pins.pc + 1 = Len(prog) THEN [p EXCEPT !.fn = "idle"] ELSE p
    /\ UNCHANGED <<op, ret, net>>

BusNext == BusCall \/ BusStep

----------------------------------------------------------------------------
(* The column's synchronization client: one compartment, the globals of    *)
(* the network code and the passes of loop().                              *)
(*   link             : what Ethernet.linkStatus() reports                 *)
(*   networkConnected, announced, lastHeartbeat, lastAnnounce              *)
(*   prev             : prevSensorStates of the compartment                *)
(*   lost             : updateNetwork has seen the link down               *)
(*   updates, served  : update() calls and requests served in the last pass*)
(*   posted           : the messages the last pass sent, in order          *)

HEARTBEAT_INTERVAL == 30000
ANNOUNCE_RETRY     == 5000

NetTickMs   == 8000   \* step of the controller's clock between loop passes
MaxNetTicks == 8      \* clock steps explored

\* sensor words in these runs: door closed and empty, door closed and
\* occupied, door open and empty
SyncWords == {126, 110, 125}

\* how a POST ends: the status of the answer, or no connection at all
PostOutcomes == {"200", "refused"}

\* what server.available() holds on a pass
SyncRequests == {"none", "GET /api/status"}

NoEvent == "-"

\* postToServer: true when the status line of the answer holds 200 or 201
postToServer(outcome) == outcome \in {"200", "201"}

Posted(endpoint, event, outcome) ==
    [endpoint |-> endpoint, event |-> event, outcome |-> outcome]

\* the byte checkSensorChanges packs from the sensors
SensorByte(l) ==
    LET s == getSensors(l)
    IN (IF s.doorClosed THEN 1 ELSE 0) + (IF s.doorOpen THEN 2 ELSE 0)
       + (IF s.occupied THEN 4 ELSE 0) + (IF s.irBeamClear THEN 8 ELSE 0)
       + (IF s.motorFault THEN 16 ELSE 0) + (IF s.safetyOk THEN 32 ELSE 0)

\* the sendEvent calls for the door sensors alone
EdgeEventsDoorOnly(l, prev) ==
    LET s   == getSensors(l)
        cur == SensorByte(l)
    IN (IF Bit(cur, 0) # Bit(prev, 0) /\ s.doorClosed THEN <<"DOOR_CLOSED">> ELSE <<>>)
       \o (IF Bit(cur, 1) # Bit(prev, 1) /\ s.doorOpen THEN <<"DOOR_OPENED">> ELSE <<>>)

\* the sendEvent calls of checkSensorChanges for one compartment, in order
EdgeEvents(l, prev) ==
    LET s   == getSensors(l)
        cur == SensorByte(l)
    IN (IF Bit(cur, 0) # Bit(prev, 0) /\ s.doorClosed THEN <<"DOOR_CLOSED">> ELSE <<>>)
       \o (IF Bit(cur, 1) # Bit(prev, 1) /\ s.doorOpen THEN <<"DOOR_OPENED">> ELSE <<>>)
       \o (IF Bit(cur, 2) # Bit(prev, 2)
           THEN <<IF s.occupied THEN "ITEM_PLACED" ELSE "ITEM_REMOVED">> ELSE <<>>)

\* checkSensorChanges that keeps the old snapshot when a send has failed
checkSensorChangesRetry(n, l, outcome) ==
    LET events == EdgeEvents(l, n.prev)
    IN IF SensorByte(l) = n.prev THEN n
       ELSE [n EXCEPT !.posted = n.posted \o
                          [k \in 1..Len(events) |-> Posted("event", events[k], outcome)],
                      !.prev = IF events # <<>> /\ ~postToServer(outcome)
                               THEN n.prev ELSE SensorByte(l)]

\* checkSensorChanges; outcome is how the event POSTs of this pass end
checkSensorChanges(n, l, outcome) ==
    LET events == EdgeEvents(l, n.prev)
    IN IF SensorByte(l) = n.prev THEN n
       ELSE [n EXCEPT !.posted = n.posted \o
                          [k \in 1..Len(events) |-> Posted("event", events[k], outcome)],
                      !.prev = SensorByte(l)]

\* the announce branch with the flag set whatever sendAnnounce returned
announceStepAlways(n, t, outcome) ==
    IF ~n.announced /\ Sub32(t, n.lastAnnounce) > ANNOUNCE_RETRY
    THEN [n EXCEPT !.posted = Append(n.posted, Posted("announce", NoEvent, outcome)),
                   !.announced = TRUE,
                   !.lastAnnounce = t]
    ELSE n

\* if (!announced && now - lastAnnounce > ANNOUNCE_RETRY) ...
announceStep(n, t, outcome) ==
    IF ~n.announced /\ Sub32(t, n.lastAnnounce) > ANNOUNCE_RETRY
    THEN [n EXCEPT !.posted = Append(n.posted, Posted("announce", NoEvent, outcome)),
                   !.announced = postToServer(outcome),
                   !.lastAnnounce = t]
    ELSE n

\* if (announced && now - lastHeartbeat > HEARTBEAT_INTERVAL) ...
heartbeatStep(n, t, outcome) ==
    IF n.announced /\ Sub32(t, n.lastHeartbeat) > HEARTBEAT_INTERVAL
    THEN [n EXCEPT !.posted = Append(n.posted, Posted("heartbeat", NoEvent, outcome)),
                   !.lastHeartbeat = t]
    ELSE n

\* updateNetwork() at millis() = t; l is the compartment after its update();
\* a, h, e are how the announce, heartbeat and event POSTs end
updateNetwork(n, l, t, a, h, e) ==
    IF ~n.networkConnected THEN n
    ELSE IF n.link = "OFF"
    THEN [n EXCEPT !.networkConnected = FALSE, !.announced = FALSE, !.lost = TRUE]
    ELSE checkSensorChanges(heartbeatStep(announceStep(n, t, a), t, h), l, e)

\* the ways the POSTs of a pass can end; a POST that is not made has none
AnnounceOutcomes(n, t) ==
    IF n.networkConnected /\ n.link = "ON" /\ announceStep(n, t, "200") # n
    THEN PostOutcomes ELSE {"200"}

HeartbeatOutcomes(n, t, a) ==
    IF /\ n.networkConnected /\ n.link = "ON"
       /\ heartbeatStep(announceStep(n, t, a), t, "200") # announceStep(n, t, a)
    THEN PostOutcomes ELSE {"200"}

EventOutcomes(n, l) ==
    IF n.networkConnected /\ n.link = "ON" /\ EdgeEvents(l, n.prev) # <<>>
    THEN PostOutcomes ELSE {"200"}

\* what a pass of loop() reports about its updateNetwork()
PassResult(n) ==
    IF ~n.networkConnected THEN "offline"
    ELSE IF n.link = "OFF" THEN "link lost"
    ELSE "synced"

\* one pass of loop(): update() of the compartment, handleClients(), then
\* updateNetwork()
Loop ==
    /\ \E in \in SyncWords, request \in SyncRequests :
          LET l      == update(lk, in, FALSE, now)
              served == IF net.networkConnected /\ request # "none" THEN 1 ELSE 0
              n      == [net EXCEPT !.posted = <<>>, !.updates = 1, !.served = served]
          IN \E a \in AnnounceOutcomes(n, now), e \in EventOutcomes(n, l) :
                \E h \in HeartbeatOutcomes(n, now, a) :
                   /\ lk' = l
                   /\ net' = updateNetwork(n, l, now, a, h, e)
    /\ op' = "loop" /\ ret' = PassResult(net)
    /\ UNCHANGED <<now, pins>>

\* the cable is pulled or plugged in again
LinkChange ==
    /\ net' = [net EXCEPT !.link = IF net.link = "ON" THEN "OFF" ELSE "ON"]
    /\ op' = "link" /\ ret' = "void"
    /\ UNCHANGED <<lk, now, pins>>

SyncTick ==
    /\ now \div NetTickMs < MaxNetTicks
    /\ now' = now + NetTickMs
    /\ op' = "tick" /\ ret' = "void"
    /\ UNCHANGED <<lk, pins, net>>

SyncNext == Loop \/ LinkChange \/ SyncTick

\* the globals after setup(): initNetwork() came up or did not
SyncInit ==
    \E connected \in BOOLEAN :
       net = [link |-> IF connected THEN "ON" ELSE "OFF",
              networkConnected |-> connected, announced |-> FALSE,
              lastHeartbeat |-> 0, lastAnnounce |-> 0, prev |-> 255,
              lost |-> FALSE, updates |-> 0, served |-> 0, posted |-> <<>>]

----------------------------------------------------------------------------
(* Coordinator: lib/db/lockerService.ts and the API routes                 *)
(*                                                                         *)
(* Identifiers that are built and parsed around '-' are kept as the        *)
(* sequence of their '-'-separated segments: "COL-001" is <<"COL", "001">> *)
(* and the compartment id "COL-001-0" is <<"COL", "001", "0">>.            *)

ClockTickMs   == 70000   \* granularity of the coordinator's clock steps
MaxClockTicks == 1       \* coordinator clock steps explored

StaleMs        == 60000    \* isColumnOnline / checkColumnHealth threshold
CodeLength     == 6        \* generatePickupCode loop bound
DefaultEsp32   == <<"192.168.150.3">>   \* DEFAULT_ESP32_IP of the prototype route

ColumnIds == {<<"COL", "001">>, <<"COL2">>}
\* ORDER BY columnId: '-' sorts before '2'
ColumnRank(c) == IF c = <<"COL", "001">> THEN 1 ELSE 2
\* lockerCount each column announces
LockerCountOf(c) == 1

OrderIds == {"o1", "o2"}
NullOrder == "null"
NullId    == <<>>
NullCode  == <<>>

IndexStr(i) == CASE i = 0 -> "0" [] i = 1 -> "1" [] i = 2 -> "2" [] OTHER -> "NaN"
NaN == -1
\* parseInt(segment, 10); NaN for "undefined" and for segments without digits
ParseInt(seg) ==
    CASE seg = "0" -> 0 [] seg = "1" -> 1 [] seg = "2" -> 2 [] seg = "001" -> 1
      [] OTHER -> NaN

\* `${columnId}-${i}`
CompartmentIdOf(c, i) == Append(c, IndexStr(i))
\* compartmentId.split('-')
Split(id) == id

CompartmentIds ==
    UNION {{CompartmentIdOf(c, i) : i \in 0..(LockerCountOf(c) - 1)} : c \in ColumnIds}

\* lockerCount of a column that announces its whole bank (NUM_LOCKERS)
FullLockerCount == 2

\* every compartment id a row can exist for
AllCompartmentIds ==
    UNION {{CompartmentIdOf(c, i) : i \in 0..(FullLockerCount - 1)} : c \in ColumnIds}

RegistryGet(id) == IF id \in DOMAIN registry THEN registry[id] ELSE NoColumn
CompGet(id)     == IF id \in DOMAIN comps THEN comps[id] ELSE NoRow

isColumnOnline(columnId) ==
    LET column == RegistryGet(columnId)
    IN column.known /\ clock - column.lastSeen < StaleMs

\* outcome of the fetch when one is made: "ok" (data.success true),
\* "refused" (data.success false) or "timeout" (the fetch throws)
Outcomes == {"ok", "refused", "timeout"}
NoError  == "undefined"

\* a request and how it ended
Fetch(columnId, endpoint, index, outcome) ==
    [kind |-> "fetch", to |-> columnId, endpoint |-> endpoint, index |-> index,
     result |-> outcome]

sendToColumn(columnId, endpoint, index, outcome) ==
    IF ~RegistryGet(columnId).known
    THEN [success |-> FALSE, error |-> "Column not found", sent |-> <<>>]
    ELSE IF ~isColumnOnline(columnId)
    THEN [success |-> FALSE, error |-> "Column offline", sent |-> <<>>]
    ELSE [success |-> outcome = "ok",
          error   |-> IF outcome = "timeout" THEN "Communication failed" ELSE NoError,
          sent    |-> <<Fetch(columnId, endpoint, index, outcome)>>]

\* the shared head of unlockLocker / lockLocker / updateLockerDisplay /
\* setLockerLED: const [columnId, indexStr] = compartmentId.split('-')
RelayToCompartment(compartmentId, endpoint, outcome) ==
    LET parts       == Split(compartmentId)
        columnId    == IF Len(parts) >= 1 THEN <<parts[1]>> ELSE NullId
        lockerIndex == IF Len(parts) >= 2 THEN ParseInt(parts[2]) ELSE NaN
    IN IF lockerIndex = NaN
       THEN [success |-> FALSE, error |-> "Invalid compartment ID", sent |-> <<>>]
       ELSE sendToColumn(columnId, endpoint, lockerIndex, outcome)

unlockLocker(compartmentId, outcome) == RelayToCompartment(compartmentId, "unlock", outcome)
lockLocker(compartmentId, outcome)   == RelayToCompartment(compartmentId, "lock", outcome)
updateLockerDisplay(compartmentId, outcome) ==
    RelayToCompartment(compartmentId, "display", outcome)
setLockerLED(compartmentId, outcome) == RelayToCompartment(compartmentId, "output", outcome)

\* ---- pickup codes ----

\* the characters generatePickupCode draws from
CodeChars == {"2", "3", "4", "5", "6", "7", "8", "9", "A", "B", "C", "D", "E", "F",
              "G", "H", "J", "K", "L", "M", "N", "P", "Q", "R", "S", "T", "U", "V",
              "W", "X", "Y", "Z"}

\* the draws of Math.random() explored
CodePool == {<<"A", "B", "C", "2", "3", "4">>, <<"D", "E", "F", "5", "6", "7">>}

\* every value generatePickupCode() can return, within the explored draws
generatePickupCode ==
    {code \in CodePool : Len(code) = CodeLength /\ \A i \in 1..Len(code) : code[i] \in CodeChars}

ToUpperCase(ch) ==
    CASE ch = "a" -> "A" [] ch = "b" -> "B" [] ch = "c" -> "C"
      [] ch = "x" -> "X" [] ch = "y" -> "Y" [] ch = "z" -> "Z"
      [] OTHER -> ch

IsWhitespace(ch) == ch \in {" ", "\t"}

\* body.code.toString().toUpperCase().replace(/\s/g, '')
RECURSIVE Normalize(_)
Normalize(raw) ==
    IF raw = <<>> THEN <<>>
    ELSE IF IsWhitespace(Head(raw)) THEN Normalize(Tail(raw))
    ELSE <<ToUpperCase(Head(raw))>> \o Normalize(Tail(raw))

\* what customers type at the kiosk
RawCodes == {<<"A", "B", "C", "2", "3", "4">>,
             <<"a", "b", "c", " ", "2", "3", "4">>,
             <<"x", "y", "z", "7", "8", "9", " ">>}

\* ---- column registration ----

\* the sensor fields a column reports per locker (sendHeartbeat sends these
\* three); a fresh registry entry holds the announce defaults
InitialSensors == [doorClosed |-> FALSE, doorOpen |-> FALSE, occupied |-> FALSE]
SensorReports  == {[doorClosed |-> TRUE, doorOpen |-> FALSE, occupied |-> o] :
                      o \in BOOLEAN}

\* handleColumnAnnounce: registry entry replaced, compartments INSERT OR IGNORE
handleColumnAnnounce(columnId, lockerCount) ==
    /\ registry' = [registry EXCEPT ![columnId] =
                       [known |-> TRUE, lastSeen |-> clock, isOnline |-> TRUE,
                        lockerCount |-> lockerCount,
                        sensors |-> [i \in 0..(lockerCount - 1) |-> InitialSensors]]]
    /\ comps' = [id \in DOMAIN comps |->
                   IF /\ \E i \in 0..(lockerCount - 1) : id = CompartmentIdOf(columnId, i)
                      /\ ~comps[id].exists
                   THEN [exists |-> TRUE, columnId |-> columnId, size |-> "M",
                         lockerIndex |-> CHOOSE i \in 0..(lockerCount - 1) :
                                             id = CompartmentIdOf(columnId, i),
                         status |-> "available", currentOrderId |-> NullOrder]
                   ELSE comps[id]]
    /\ UNCHANGED orders

\* lockers: the reported snapshot, locker index -> sensor record
handleHeartbeat(columnId, lockers) ==
    /\ registry' =
          IF RegistryGet(columnId).known
          THEN [registry EXCEPT
                  ![columnId].lastSeen = clock,
                  ![columnId].isOnline = TRUE,
                  ![columnId].sensors =
                      [i \in DOMAIN registry[columnId].sensors |->
                         IF i \in DOMAIN lockers THEN lockers[i]
                         ELSE registry[columnId].sensors[i]]]
          ELSE registry
    /\ UNCHANGED <<comps, orders>>

\* the events a column posts (checkSensorChanges)
LockerEvents == {"DOOR_OPENED", "DOOR_CLOSED", "ITEM_PLACED", "ITEM_REMOVED"}

SetStatus(id, st) ==
    IF CompGet(id).exists THEN [comps EXCEPT ![id].status = st] ELSE comps

\* events the handler also accepts; the column firmware never posts them
AlertEvents == {"MOTOR_FAULT", "SAFETY_TRIPPED", "MOTOR_FAULT_CLEARED", "SAFETY_CLEARED"}

KeepStatus == "unchanged"

eventStatusNoSafety(event, bound) ==
    CASE event = "DOOR_OPENED" -> "open"
      [] event = "DOOR_CLOSED" -> IF bound THEN "occupied" ELSE "available"
      [] event = "MOTOR_FAULT" -> "fault"
      [] event = "MOTOR_FAULT_CLEARED" -> "available"
      [] OTHER -> KeepStatus

\* the status the switch of handleLockerEvent writes for the events that only
\* set the status; bound: the compartment has a currentOrderId
eventStatus(event, bound) ==
    CASE event = "DOOR_OPENED" -> "open"
      [] event = "DOOR_CLOSED" -> IF bound THEN "occupied" ELSE "available"
      [] event \in {"MOTOR_FAULT", "SAFETY_TRIPPED"} -> "fault"
      [] event \in {"MOTOR_FAULT_CLEARED", "SAFETY_CLEARED"} -> "available"
      [] OTHER -> KeepStatus

itemRemovedKeepsBinding(compartmentId) ==
    LET row == CompGet(compartmentId)
    IN IF row.exists /\ row.currentOrderId # NullOrder
       THEN [orders |-> IF row.currentOrderId \in DOMAIN orders
                        THEN [orders EXCEPT ![row.currentOrderId].pickedUpAt = TRUE]
                        ELSE orders,
             comps  |-> [comps EXCEPT ![compartmentId].status = "available"]]
       ELSE [orders |-> orders, comps |-> comps]

\* case 'ITEM_REMOVED': the two tables after the event
itemRemoved(compartmentId) ==
    LET row == CompGet(compartmentId)
    IN IF row.exists /\ row.currentOrderId # NullOrder
       THEN [orders |-> IF row.currentOrderId \in DOMAIN orders
                        THEN [orders EXCEPT ![row.currentOrderId].pickedUpAt = TRUE]
                        ELSE orders,
             comps  |-> [comps EXCEPT ![compartmentId].status = "available",
                                      ![compartmentId].currentOrderId = NullOrder]]
       ELSE [orders |-> orders, comps |-> comps]

handleLockerEvent(columnId, lockerIndex, event) ==
    LET compartmentId == CompartmentIdOf(columnId, lockerIndex)
        row    == CompGet(compartmentId)
        bound  == row.exists /\ row.currentOrderId # NullOrder
        status == eventStatus(event, bound)
    IN /\ UNCHANGED registry
       /\ IF event = "ITEM_REMOVED"
          THEN /\ orders' = itemRemoved(compartmentId).orders
               /\ comps' = itemRemoved(compartmentId).comps
          ELSE /\ comps' = IF status = KeepStatus THEN comps
                           ELSE SetStatus(compartmentId, status)
               /\ UNCHANGED orders

\* ---- reservations ----

StatusError(st) ==
    CASE st = "reserved" -> "Compartment is reserved"
      [] st = "occupied" -> "Compartment is occupied"
      [] st = "open"     -> "Compartment is open"
      [] st = "fault"    -> "Compartment is fault"
      [] OTHER           -> "Compartment is available"

\* the part of assignOrderToLocker before its first await: the SELECT, the
\* status test and the two UPDATEs.  Gives the result, or "pending" when the
\* reservation was written and the display relay is awaited.
assignSyncNoStatusCheck(orderId, compartmentId, pickupCode) ==
    IF ~CompGet(compartmentId).exists
    THEN [res |-> "Compartment not found", orders |-> orders, comps |-> comps]
    ELSE [res    |-> "pending",
          orders |-> [orders EXCEPT ![orderId].compartmentId = compartmentId,
                                    ![orderId].pickupCode = pickupCode],
          comps  |-> [comps EXCEPT ![compartmentId].status = "reserved",
                                   ![compartmentId].currentOrderId = orderId]]

assignSync(orderId, compartmentId, pickupCode) ==
    LET compartment == CompGet(compartmentId)
    IN IF ~compartment.exists
       THEN [res |-> "Compartment not found", orders |-> orders, comps |-> comps]
       ELSE IF compartment.status # "available"
       THEN [res |-> StatusError(compartment.status), orders |-> orders, comps |-> comps]
       ELSE [res    |-> "pending",
             orders |-> [orders EXCEPT ![orderId].compartmentId = compartmentId,
                                       ![orderId].pickupCode = pickupCode],
             comps  |-> [comps EXCEPT ![compartmentId].status = "reserved",
                                      ![compartmentId].currentOrderId = orderId]]

\* an ordering by lockerIndex first, then columnId
BeforeIndexFirst(a, b) ==
    \/ comps[a].lockerIndex < comps[b].lockerIndex
    \/ /\ comps[a].lockerIndex = comps[b].lockerIndex
       /\ ColumnRank(comps[a].columnId) < ColumnRank(comps[b].columnId)

\* SELECT * FROM Compartment WHERE status = 'available' [AND size = ?]
\* ORDER BY columnId, lockerIndex; size "any" is the call without a size
Before(a, b) ==
    \/ ColumnRank(comps[a].columnId) < ColumnRank(comps[b].columnId)
    \/ /\ comps[a].columnId = comps[b].columnId
       /\ comps[a].lockerIndex < comps[b].lockerIndex

getAvailableCompartments(size) ==
    {id \in DOMAIN comps : /\ comps[id].exists
                           /\ comps[id].status = "available"
                           /\ size # "any" => comps[id].size = size}

\* available[0].id
FirstOf(available) == CHOOSE a \in available : \A b \in available \ {a} : Before(a, b)

\* an assignOrderToLocker that undoes its reservation when the display relay
\* has not succeeded
AssignToRollback(orderId, compartmentId) ==
    \E pickupCode \in generatePickupCode, outcome \in Outcomes :
       LET r == assignSync(orderId, compartmentId, pickupCode)
           d == updateLockerDisplay(compartmentId, outcome)
       IN /\ orders' = IF r.res = "pending" /\ ~d.success THEN orders ELSE r.orders
          /\ comps' = IF r.res = "pending" /\ ~d.success THEN comps ELSE r.comps
          /\ ret' = IF r.res # "pending" THEN r.res
                    ELSE IF d.success THEN "success" ELSE d.error
          /\ sent' = IF r.res = "pending" THEN d.sent ELSE <<>>

\* assignOrderToLocker, whole: the synchronous part, then the display relay,
\* whose result is ignored
AssignTo(orderId, compartmentId) ==
    \E pickupCode \in generatePickupCode, outcome \in Outcomes :
       LET r == assignSync(orderId, compartmentId, pickupCode)
       IN /\ orders' = r.orders
          /\ comps' = r.comps
          /\ ret' = IF r.res = "pending" THEN "success" ELSE r.res
          /\ sent' = IF r.res = "pending"
                     THEN updateLockerDisplay(compartmentId, outcome).sent ELSE <<>>

\* POST /api/lockers/assign with a compartmentId
Assign ==
    /\ \E orderId \in OrderIds, compartmentId \in CompartmentIds :
          /\ AssignTo(orderId, compartmentId)
          /\ arg' = compartmentId
    /\ op' = "assign"
    /\ UNCHANGED <<registry, clock, used>>

\* body.size: absent ("any") or one of the sizes
Sizes == {"any", "M", "S"}

\* POST /api/lockers/assign without a compartmentId
AssignAuto ==
    /\ \E orderId \in OrderIds, size \in Sizes :
          LET available == getAvailableCompartments(size)
          IN /\ arg' = <<size>>
             /\ IF available = {}
                THEN /\ ret' = "No available compartments"
                     /\ sent' = <<>>
                     /\ UNCHANGED <<comps, orders>>
                ELSE AssignTo(orderId, FirstOf(available))
    /\ op' = "assignAuto"
    /\ UNCHANGED <<registry, clock, used>>

\* POST /api/lockers/loaded -> markOrderLoaded
MarkLoaded ==
    /\ \E orderId \in OrderIds, outcome \in Outcomes :
          LET order == orders[orderId]
          IN IF order.compartmentId = NullId
             THEN /\ ret' = "Order not assigned to locker"
                  /\ arg' = <<orderId>> /\ sent' = <<>>
                  /\ UNCHANGED comps
             ELSE /\ comps' = SetStatus(order.compartmentId, "occupied")
                  /\ sent' = updateLockerDisplay(order.compartmentId, outcome).sent
                               \o setLockerLED(order.compartmentId, outcome).sent
                  /\ ret' = "success"
                  /\ arg' = <<orderId>>
    /\ op' = "markLoaded"
    /\ UNCHANGED <<registry, orders, clock, used>>

\* the SELECT of validateAndUnlock without the test of the compartment status
MatchingOrdersAnyStatus(pickupCode) ==
    {o \in DOMAIN orders : /\ orders[o].pickupCode = pickupCode
                           /\ ~orders[o].pickedUpAt
                           /\ CompGet(orders[o].compartmentId).exists}

\* the orders the SELECT of validateAndUnlock matches
MatchingOrders(pickupCode) ==
    {o \in DOMAIN orders : /\ orders[o].pickupCode = pickupCode
                           /\ ~orders[o].pickedUpAt
                           /\ CompGet(orders[o].compartmentId).exists
                           /\ comps[orders[o].compartmentId].status = "occupied"}

\* [res, sent] of validateAndUnlock for the order row the SELECT returned;
\* the display relay and the unlock relay each end in their own way
validateAndUnlock(pickupCode, o, displayOutcome, unlockOutcome) ==
    IF o \notin MatchingOrders(pickupCode)
    THEN [res |-> "Invalid or expired pickup code", sent |-> <<>>]
    ELSE LET d == updateLockerDisplay(orders[o].compartmentId, displayOutcome)
             u == unlockLocker(orders[o].compartmentId, unlockOutcome)
         IN [res  |-> IF u.success THEN "success"
                      ELSE IF u.error # NoError THEN u.error ELSE "Failed to unlock",
             sent |-> d.sent \o u.sent]

\* POST /api/lockers/pickup (lockerService)
Pickup ==
    /\ \E raw \in RawCodes, displayOutcome \in Outcomes, unlockOutcome \in Outcomes :
          LET code == Normalize(raw)
              hits == MatchingOrders(code)
          IN \E o \in (IF hits = {} THEN {NullOrder} ELSE hits) :
                LET r == validateAndUnlock(code, o, displayOutcome, unlockOutcome)
                IN /\ ret' = r.res
                   /\ sent' = r.sent
                   /\ arg' = code
                   /\ used' = IF r.res = "success" THEN used \cup {code} ELSE used
    /\ op' = "pickup"
    /\ UNCHANGED <<registry, comps, orders, clock>>

\* POST /api/lockers/[id] { action }
Actions == {"unlock", "lock", "led", "display"}

CompartmentAction ==
    /\ \E id \in CompartmentIds, action \in Actions, outcome \in Outcomes :
          LET r == CASE action = "unlock" -> unlockLocker(id, outcome)
                     [] action = "lock"   -> lockLocker(id, outcome)
                     [] action = "led"    -> setLockerLED(id, outcome)
                     [] OTHER             -> updateLockerDisplay(id, outcome)
          IN /\ ret' = IF r.success THEN "success" ELSE r.error
             /\ sent' = r.sent
             /\ arg' = id
    /\ op' = "relay"
    /\ UNCHANGED <<registry, comps, orders, clock, used>>

\* ---- the prototype pickup route (t730_test/app/api/lockers/pickup) ----

\* its seeded order cache; pickedUpAt is never written
TestOrders ==
    {[id |-> "ord_001", compartmentId |-> <<"COL", "001", "1">>,
      pickupCode |-> <<"A", "B", "C", "1", "2", "3">>, pickedUpAt |-> FALSE],
     [id |-> "ord_002", compartmentId |-> <<"COL", "001", "2">>,
      pickupCode |-> <<"X", "Y", "Z", "7", "8", "9">>, pickedUpAt |-> FALSE]}

\* its own unlockLocker: column = everything before the last '-'
unlockLockerDirect(compartmentId, outcome) ==
    LET parts       == Split(compartmentId)
        lockerIndex == ParseInt(parts[Len(parts)])
        columnId    == SubSeq(parts, 1, Len(parts) - 1)
        column      == RegistryGet(columnId)
    IN [success |-> outcome = "ok",
        error   |-> IF outcome = "timeout" THEN "ESP32 unreachable" ELSE NoError,
        sent    |-> <<Fetch(IF column.known THEN columnId ELSE DefaultEsp32,
                            "unlock", lockerIndex, outcome)>>]

TestPickup ==
    /\ \E raw \in RawCodes, outcome \in Outcomes :
          LET code == Normalize(raw)
              hits == {o \in TestOrders : o.pickupCode = code /\ ~o.pickedUpAt}
          IN /\ arg' = code
             /\ IF hits = {}
                THEN /\ ret' = "Invalid or expired pickup code"
                     /\ sent' = <<>>
                     /\ UNCHANGED used
                ELSE LET foundOrder == CHOOSE o \in hits : TRUE
                         r == unlockLockerDirect(foundOrder.compartmentId, outcome)
                     IN /\ ret' = IF r.success THEN "success"
                                  ELSE IF r.error # NoError THEN r.error
                                  ELSE "Failed to unlock locker"
                        /\ sent' = r.sent
                        /\ used' = IF r.success THEN used \cup {code} ELSE used
    /\ op' = "testPickup"
    /\ UNCHANGED <<registry, comps, orders, clock>>

\* ---- messages from the columns ----

Announce ==
    /\ \E columnId \in ColumnIds :
          /\ handleColumnAnnounce(columnId, LockerCountOf(columnId))
          /\ arg' = columnId
    /\ op' = "announce" /\ ret' = "success" /\ sent' = <<>>
    /\ UNCHANGED <<clock, used>>

\* POST /api/lockers/heartbeat from one column
HeartbeatOf(columnId) ==
    /\ \E lockers \in [0..(LockerCountOf(columnId) - 1) -> SensorReports] :
          /\ handleHeartbeat(columnId, lockers)
          /\ arg' = columnId
    /\ op' = "heartbeat" /\ ret' = "success" /\ sent' = <<>>
    /\ UNCHANGED <<clock, used>>

Heartbeat == \E columnId \in ColumnIds : HeartbeatOf(columnId)

\* the coordinator process starts again: the registry Map is created empty,
\* the tables of the database are as they were
Restart ==
    /\ registry' = [c \in DOMAIN registry |-> NoColumn]
    /\ op' = "restart" /\ ret' = "void" /\ sent' = <<>> /\ arg' = NullId
    /\ UNCHANGED <<comps, orders, clock, used>>

LockerEvent ==
    /\ \E columnId \in ColumnIds, event \in LockerEvents :
          \E lockerIndex \in 0..(LockerCountOf(columnId) - 1) :
             handleLockerEvent(columnId, lockerIndex, event)
    /\ op' = "lockerEvent" /\ ret' = "success" /\ sent' = <<>> /\ arg' = NullId
    /\ UNCHANGED <<clock, used>>

\* setInterval(checkColumnHealth, 30000)
checkColumnHealth ==
    /\ registry' = [c \in DOMAIN registry |->
                      IF /\ registry[c].known
                         /\ clock - registry[c].lastSeen > StaleMs
                         /\ registry[c].isOnline
                      THEN [registry[c] EXCEPT !.isOnline = FALSE]
                      ELSE registry[c]]
    /\ op' = "checkColumnHealth" /\ ret' = "void" /\ sent' = <<>> /\ arg' = NullId
    /\ UNCHANGED <<comps, orders, clock, used>>

ClockTick ==
    /\ clock \div ClockTickMs < MaxClockTicks
    /\ clock' = clock + ClockTickMs
    /\ op' = "tick" /\ ret' = "void" /\ sent' = <<>> /\ arg' = NullId
    /\ UNCHANGED <<registry, comps, orders, used>>

CoordInit ==
    /\ registry = [c \in ColumnIds |-> NoColumn]
    /\ comps = [id \in AllCompartmentIds |-> NoRow]
    /\ orders = [o \in OrderIds |->
                   [compartmentId |-> NullId, pickupCode |-> NullCode, pickedUpAt |-> FALSE]]
    /\ clock = 0
    /\ arg = NullId
    /\ sent = <<>>
    /\ used = {}

\* ---- concurrent requests to POST /api/lockers/assign ----

MaxRequests == 2
RequestIds  == 1..MaxRequests
Auto        == <<"auto">>     \* a request body without compartmentId

IdleRequest == [pc |-> "idle", orderId |-> NullOrder, compartmentId |-> NullId,
                res |-> "none"]

\* the request arrives; the handler suspends at `await request.json()`
AssignReceive(r) ==
    /\ reqs[r].pc = "idle"
    /\ \E orderId \in OrderIds, compartmentId \in CompartmentIds \cup {Auto} :
          reqs' = [reqs EXCEPT ![r] = [pc |-> "parsed", orderId |-> orderId,
                                       compartmentId |-> compartmentId, res |-> "none"]]
    /\ op' = "assignReceive" /\ ret' = "void" /\ sent' = <<>> /\ arg' = NullId
    /\ UNCHANGED <<registry, comps, orders, clock, used>>

\* the handler resumes and runs, without yielding, up to the first await of
\* assignOrderToLocker (the display relay) or to its error return
AssignRun(r) ==
    /\ reqs[r].pc = "parsed"
    /\ \E pickupCode \in generatePickupCode :
          LET available == getAvailableCompartments("any")
              auto      == reqs[r].compartmentId = Auto
          IN IF auto /\ available = {}
             THEN /\ reqs' = [reqs EXCEPT ![r].pc = "done",
                                          ![r].res = "No available compartments"]
                  /\ ret' = "No available compartments"
                  /\ arg' = NullId
                  /\ UNCHANGED <<comps, orders>>
             ELSE LET compartmentId == IF auto THEN FirstOf(available)
                                       ELSE reqs[r].compartmentId
                      a == assignSync(reqs[r].orderId, compartmentId, pickupCode)
                  IN /\ orders' = a.orders
                     /\ comps' = a.comps
                     /\ reqs' = [reqs EXCEPT
                                   ![r].pc = IF a.res = "pending" THEN "relay" ELSE "done",
                                   ![r].compartmentId = compartmentId,
                                   ![r].res = a.res]
                     /\ ret' = a.res
                     /\ arg' = compartmentId
    /\ op' = "assignRun" /\ sent' = <<>>
    /\ UNCHANGED <<registry, clock, used>>

\* the display relay settles; assignOrderToLocker returns success
AssignFinish(r) ==
    /\ reqs[r].pc = "relay"
    /\ \E outcome \in Outcomes :
          sent' = updateLockerDisplay(reqs[r].compartmentId, outcome).sent
    /\ reqs' = [reqs EXCEPT ![r].pc = "done", ![r].res = "success"]
    /\ op' = "assignFinish" /\ ret' = "success" /\ arg' = reqs[r].compartmentId
    /\ UNCHANGED <<registry, comps, orders, clock, used>>

AssignNext ==
    \/ Announce /\ UNCHANGED reqs
    \/ \E r \in RequestIds : AssignReceive(r)
    \/ \E r \in RequestIds : AssignRun(r)
    \/ \E r \in RequestIds : AssignFinish(r)

\* ---- POST /api/lockers/event with any event name ----

EventNames == LockerEvents \cup AlertEvents

PostEvent ==
    /\ \E columnId \in ColumnIds, event \in EventNames :
          \E lockerIndex \in 0..(LockerCountOf(columnId) - 1) :
             /\ handleLockerEvent(columnId, lockerIndex, event)
             /\ arg' = CompartmentIdOf(columnId, lockerIndex)
             /\ op' = event
    /\ ret' = "void" /\ sent' = <<>>
    /\ UNCHANGED <<clock, used>>

\* the event side: reservations and every event the handler accepts
EventsNext == Announce \/ Assign \/ MarkLoaded \/ PostEvent

\* reservations and loading next to the columns' heartbeats
ReconcileNext == Announce \/ Assign \/ MarkLoaded \/ Heartbeat

\* the registry side: liveness of the columns and the command relays
RegistryNext ==
    \/ Announce \/ Heartbeat \/ checkColumnHealth \/ ClockTick
    \/ CompartmentAction \/ TestPickup

\* the order side: assignment, loading, pickup and the columns' events
OrdersNext ==
    \/ Announce \/ LockerEvent
    \/ Assign \/ MarkLoaded \/ Pickup

\* reservations and loading while the columns fall silent
RelayNext == Announce \/ ClockTick \/ Assign \/ MarkLoaded

\* the columns' messages around restarts of the coordinator
RestartNext == Announce \/ Heartbeat \/ Restart \/ ClockTick

\* assignment, the columns' events and pickup, with no order ever marked loaded
UnloadedNext == Announce \/ LockerEvent \/ Assign \/ Pickup

\* a column announces its whole bank of lockers
AnnounceAll ==
    /\ \E columnId \in ColumnIds : /\ handleColumnAnnounce(columnId, FullLockerCount)
                                   /\ arg' = columnId
    /\ op' = "announce" /\ ret' = "success" /\ sent' = <<>>
    /\ UNCHANGED <<clock, used>>

\* assignment with and without a chosen compartment over whole banks
AutoNext == AnnounceAll \/ Assign \/ AssignAuto

----------------------------------------------------------------------------
(* Specifications of the controller side *)

\* the synchronization client before it is looked at
NetInit == net = <<>>

BusInit == PinsInit /\ NetInit

InitFw == FwInit /\ CoordInit /\ reqs = <<>> /\ BusInit
NextFw == FwNext /\ UNCHANGED <<coordVars, reqs, busVars>>
SpecFw == InitFw /\ [][NextFw]_vars

NextToggle == ToggleNext /\ UNCHANGED <<coordVars, reqs, busVars>>
SpecToggle == InitFw /\ [][NextToggle]_vars

NextConfined == ConfinedNext /\ UNCHANGED <<coordVars, reqs, busVars>>
SpecConfined == InitFw /\ [][NextConfined]_vars

InitPins ==
    /\ lk \in InitLocker /\ lk.shift = 0 /\ lk.driven = 0
    /\ now = 0 /\ op = "init" /\ ret = "void"
    /\ CoordInit /\ reqs = <<>> /\ BusInit
NextPins == BusNext /\ UNCHANGED <<fwVars, coordVars, reqs>>
SpecPins == InitPins /\ [][NextPins]_vars

InitSync ==
    /\ \E l \in InitLocker, in \in SyncWords :
          /\ l.shift = 0 /\ l.driven = 0
          /\ lk = begin(writeOutputs(l, 0), in, FALSE)
    /\ now = 0 /\ op = "begin" /\ ret = "void"
    /\ CoordInit /\ reqs = <<>> /\ PinsInit /\ SyncInit
NextSync == SyncNext /\ UNCHANGED <<coordVars, reqs>>
SpecSync == InitSync /\ [][NextSync]_vars

\* millis() keeps counting and loop() keeps being called: passes of the loop
\* occur again and again
SpecSyncLive ==
    /\ SpecSync
    /\ WF_vars(SyncTick /\ UNCHANGED <<coordVars, reqs>>)
    /\ []<><<op' = "loop">>_vars

InitSR == FwInit /\ CoordInit /\ reqs = <<>> /\ BusInit
NextSR == SRNext /\ UNCHANGED <<coordVars, reqs, busVars>>
SpecSR == InitSR /\ [][NextSR]_vars

----------------------------------------------------------------------------
(* The controller late in its uptime: millis() is about to wrap.  Only the *)
(* loop and sanitize requests act.                                         *)

\* the loop iteration during which the millisecond counter wraps
TickAcross ==
    /\ op # "init"
    /\ now = MillisWrap - WrapLeadMs
    /\ now' = Add32(now, TickMs)
    /\ op' = "tick" /\ ret' = "void"
    /\ UNCHANGED lk

UptimeNext == TickAcross \/ Tick \/ Update \/ StartSanitize

\* setup() ran long ago and nothing has moved the compartment since
InitUptime ==
    /\ \E l \in InitLocker, in \in InputWords, disturb \in BOOLEAN :
          lk = begin(writeOutputs(l, 0), in, disturb)
    /\ now = MillisWrap - WrapLeadMs
    /\ op = "begin" /\ ret = "void"
    /\ CoordInit /\ reqs = <<>> /\ BusInit
NextUptime == UptimeNext /\ UNCHANGED <<coordVars, reqs, busVars>>
SpecUptime == InitUptime /\ [][NextUptime]_vars

----------------------------------------------------------------------------
(* Specifications of the coordinator *)

InitCoord ==
    /\ CoordInit
    /\ lk \in InitLocker /\ lk.shift = 0 /\ lk.driven = 0
    /\ now = 0 /\ reqs = <<>> /\ BusInit
    /\ op = "init" /\ ret = "void"
NextRegistry == RegistryNext /\ UNCHANGED <<fwVars, reqs, busVars>>
SpecRegistry == InitCoord /\ [][NextRegistry]_vars

NextOrders == OrdersNext /\ UNCHANGED <<fwVars, reqs, busVars>>
SpecOrders == InitCoord /\ [][NextOrders]_vars

NextEvents == EventsNext /\ UNCHANGED <<fwVars, reqs, busVars>>
SpecEvents == InitCoord /\ [][NextEvents]_vars

NextReconcile == ReconcileNext /\ UNCHANGED <<fwVars, reqs, busVars>>
SpecReconcile == InitCoord /\ [][NextReconcile]_vars

NextRelay == RelayNext /\ UNCHANGED <<fwVars, reqs, busVars>>
SpecRelay == InitCoord /\ [][NextRelay]_vars

NextRestart == RestartNext /\ UNCHANGED <<fwVars, reqs, busVars>>
SpecRestart == InitCoord /\ [][NextRestart]_vars

\* every column keeps sending heartbeats (its loop runs forever) and the
\* coordinator keeps answering them
SpecRestartLive ==
    /\ SpecRestart
    /\ \A c \in ColumnIds : WF_vars(HeartbeatOf(c) /\ UNCHANGED <<fwVars, reqs, busVars>>)

NextUnloaded == UnloadedNext /\ UNCHANGED <<fwVars, reqs, busVars>>
SpecUnloaded == InitCoord /\ [][NextUnloaded]_vars

NextAuto == AutoNext /\ UNCHANGED <<fwVars, reqs, busVars>>
SpecAuto == InitCoord /\ [][NextAuto]_vars

InitAssign ==
    /\ CoordInit
    /\ lk \in InitLocker /\ lk.shift = 0 /\ lk.driven = 0
    /\ now = 0
    /\ reqs = [r \in RequestIds |-> IdleRequest] /\ BusInit
    /\ op = "init" /\ ret = "void"
NextAssign == AssignNext /\ UNCHANGED <<fwVars, busVars>>
SpecAssign == InitAssign /\ [][NextAssign]_vars

----------------------------------------------------------------------------
(* Properties of the controller side *)

MotorFaultBit(l) == Bit(l.inp, 7) = 1
DoorClosedBit(l) == Bit(l.inp, 0) = 0
DoorOpenBit(l)   == Bit(l.inp, 1) = 0
IrClearBit(l)    == Bit(l.inp, 2) = 1

\* C1 (as stated): whatever the prior state and output word, an update() that
\* samples motor-fault asserted ends in FAULT with the whole output word zero.
C1_Original ==
    [][(op' = "update" /\ MotorFaultBit(lk'))
          => (lk'.state = "FAULT" /\ lk'.out = 0 /\ lk'.driven = 0)]_vars

\* C1 (amended): an update() that samples motor-fault asserted ends in FAULT;
\* when the prior state was not FAULT the whole output word is zeroed, and when
\* it already was FAULT the output word is left as it was.
C1_Amended ==
    [][(op' = "update" /\ MotorFaultBit(lk'))
          => /\ lk'.state = "FAULT"
             /\ lk.state # "FAULT" => (lk'.out = 0 /\ lk'.driven = 0)
             /\ lk.state = "FAULT" => (lk'.out = lk.out /\ lk'.driven = lk.out)]_vars

C1_Witness ==
    /\ op = "update" /\ MotorFaultBit(lk)
    /\ lk.state = "FAULT" /\ lk.lastError = "Motor fault"
    /\ lk.out = 0 /\ lk.driven = 0

\* C2: unlock() fails with "Busy" exactly when the state is UNLOCKING, CLOSING
\* or SANITIZING, and a failing unlock() leaves state and outputs untouched.
C2_UnlockBusy ==
    [][op' = "unlock"
          => /\ (ret' = "false" /\ lk'.lastError = "Busy")
                    <=> lk.state \in {"UNLOCKING", "CLOSING", "SANITIZING"}
             /\ ret' = "false"
                    => /\ lk'.state = lk.state
                       /\ lk'.out = lk.out /\ lk'.driven = lk.driven
                       /\ lk'.opStart = lk.opStart]_vars

C2_Witness ==
    /\ op = "unlock" /\ ret = "false" /\ lk.lastError = "Busy"
    /\ lk.state = "SANITIZING" /\ Bit(lk.out, 2) = 1

\* C3: lock() with the IR beam blocked returns an obstruction error and leaves
\* the state, the operation start time and the outputs unchanged.
C3_LockBlocked ==
    [][(op' = "lock" /\ ~IrClearBit(lk))
          => /\ ret' = "false" /\ lk'.lastError = "IR blocked"
             /\ lk'.state = lk.state /\ lk'.opStart = lk.opStart
             /\ lk'.out = lk.out /\ lk'.driven = lk.driven]_vars

C3_Witness ==
    /\ op = "lock" /\ ret = "false" /\ lk.lastError = "IR blocked"
    /\ ~IrClearBit(lk) /\ lk.state = "OPEN"

\* C4: after begin() the state is LOCKED if door-closed is asserted, else OPEN
\* if door-open is asserted, else IDLE, and every output is zero.
C4_BootState ==
    op = "begin"
       => /\ lk.state = IF DoorClosedBit(lk) THEN "LOCKED"
                        ELSE IF DoorOpenBit(lk) THEN "OPEN" ELSE "IDLE"
          /\ lk.out = 0 /\ lk.driven = 0

C4_Witness ==
    op = "begin" /\ ~DoorClosedBit(lk) /\ DoorOpenBit(lk) /\ lk.state = "OPEN"

\* C5: readInputs() changes neither the stored output word nor the word driven
\* on the actuator pins: after the read both equal the word written before it.
C5_ReadKeepsOutputs ==
    [][op' = "readInputs"
          => /\ lk'.out = lk.out
             /\ lk'.driven = lk.out
             /\ lk'.driven = lk.driven]_vars

C5_Witness ==
    op = "readInputs" /\ lk.inp = 85 /\ lk.out = 170 /\ lk.driven = 170

----------------------------------------------------------------------------
(* Coordinator properties *)

\* the column the last relay was addressed to
RelayTarget ==
    IF op = "relay" THEN SubSeq(arg, 1, Len(arg) - 1)
    ELSE IF op = "testPickup" /\ \E o \in TestOrders : o.pickupCode = arg
    THEN LET o == CHOOSE t \in TestOrders : t.pickupCode = arg
         IN SubSeq(o.compartmentId, 1, Len(o.compartmentId) - 1)
    ELSE NullId

Silent(c) == registry[c].known /\ clock - registry[c].lastSeen > StaleMs

\* C6: a column whose last announce/heartbeat is more than 60 s old is
\* reported offline, and a relay addressed to it (a compartment command or a
\* pickup unlock) fails with 'Column offline' and issues no network request.
C6_OfflineRelay ==
    \A c \in ColumnIds :
       Silent(c) =>
          /\ ~isColumnOnline(c)
          /\ RelayTarget = c => (ret = "Column offline" /\ sent = <<>>)

\* C7: once a code has validated successfully, every later pickup call whose
\* input normalizes to that code fails with 'Invalid or expired pickup code',
\* wherever the call falls among the column's events.
C7_ValidatesOnce ==
    [][(op' \in {"pickup", "testPickup"} /\ arg' \in used)
          => ret' = "Invalid or expired pickup code"]_vars

\* C8: assignOrderToLocker on an existing compartment whose status is not
\* 'available' fails with "Compartment is <status>", and no compartment row
\* and no order row changes.
C8_AssignRefused ==
    [][(op' = "assign" /\ CompGet(arg').exists /\ comps[arg'].status # "available")
          => /\ ret' = StatusError(comps[arg'].status)
             /\ comps' = comps
             /\ orders' = orders]_vars

C8_Witness ==
    /\ op = "assign"
    /\ CompGet(arg).exists
    /\ comps[arg].status = "occupied"
    /\ comps[arg].currentOrderId # NullOrder
    /\ ret = "Compartment is occupied"

Succeeded(r) == reqs[r].res \in {"pending", "success"}

\* C9: under every interleaving of concurrent assign requests, no two
\* requests for different orders both succeed on the same compartment, and no
\* compartment is the compartment of two orders awaiting pickup.
C9_NoDoubleBooking ==
    /\ \A r1, r2 \in DOMAIN reqs :
          (r1 # r2 /\ Succeeded(r1) /\ Succeeded(r2)
             /\ reqs[r1].orderId # reqs[r2].orderId)
          => reqs[r1].compartmentId # reqs[r2].compartmentId
    /\ \A c \in CompartmentIds :
          Cardinality({o \in OrderIds : orders[o].compartmentId = c
                                        /\ ~orders[o].pickedUpAt}) <= 1

\* two requests for different orders raced for one compartment: one is still
\* awaiting its display relay, the other was refused
C9_Witness ==
    \E r1, r2 \in DOMAIN reqs :
       /\ r1 # r2
       /\ reqs[r1].orderId # reqs[r2].orderId
       /\ reqs[r1].compartmentId = reqs[r2].compartmentId
       /\ reqs[r1].pc = "relay" /\ reqs[r1].res = "pending"
       /\ reqs[r2].pc = "done" /\ reqs[r2].res = "Compartment is reserved"

\* C10: no two orders that are not yet picked up hold the same pickup code.
C10_CodesUnique ==
    \A o1, o2 \in OrderIds :
       (o1 # o2 /\ orders[o1].pickupCode # NullCode /\ orders[o2].pickupCode # NullCode
          /\ ~orders[o1].pickedUpAt /\ ~orders[o2].pickedUpAt)
       => orders[o1].pickupCode # orders[o2].pickupCode

----------------------------------------------------------------------------
(* Controller properties, continued *)

\* C11: an update() of a compartment in CLOSING that samples no motor fault
\* and a blocked IR beam leaves it in UNLOCKING with the error "Obstruction",
\* the direction output set to open and the LED output as it was; an
\* update() of the retrying compartment that samples door-open (and no motor
\* fault) leaves it in OPEN.
C11_ObstructionRetry ==
    [][/\ (op' = "update" /\ lk.state = "CLOSING"
             /\ ~MotorFaultBit(lk') /\ ~IrClearBit(lk'))
          => /\ lk'.state = "UNLOCKING"
             /\ lk'.lastError = "Obstruction"
             /\ Bit(lk'.out, OUT_DIR) = 1 /\ Bit(lk'.driven, OUT_DIR) = 1
             /\ Bit(lk'.out, OUT_LED) = Bit(lk.out, OUT_LED)
             /\ Bit(lk'.driven, OUT_LED) = Bit(lk.out, OUT_LED)
       /\ (op' = "update" /\ lk.state = "UNLOCKING" /\ lk.lastError = "Obstruction"
             /\ ~MotorFaultBit(lk') /\ DoorOpenBit(lk'))
          => lk'.state = "OPEN"]_vars

\* the retry after an obstruction has reached OPEN with the LED still on
C11_Witness ==
    /\ op = "update"
    /\ lk.state = "OPEN"
    /\ lk.lastError = "Obstruction"
    /\ Bit(lk.out, OUT_LED) = 1

\* milliseconds since the running sanitize cycle of duration d was started
SanitizeElapsed(l, t, d) == Sub32(t, Sub32(l.sanitizeEnd, d))

UvcBit(l) == Bit(l.out, 2)

\* C12: startSanitize(d) on a LOCKED compartment with door-closed asserted
\* succeeds and leaves it SANITIZING with the UV output on; an update() of a
\* SANITIZING compartment that samples no motor fault keeps it SANITIZING
\* while fewer than d milliseconds have elapsed since the start, and leaves it
\* LOCKED with the UV output off once d milliseconds have elapsed.
C12_SanitizeCycle ==
    [][/\ (op' = "startSanitize" /\ lk.state = "LOCKED" /\ DoorClosedBit(lk))
          => (ret' = "true" /\ lk'.state = "SANITIZING" /\ UvcBit(lk') = 1)
       /\ \A d \in SanitizeDurations :
             (op' = "update" /\ lk.state = "SANITIZING" /\ ~MotorFaultBit(lk'))
             => IF SanitizeElapsed(lk, now, d) < d
                THEN lk'.state = "SANITIZING"
                ELSE lk'.state = "LOCKED" /\ UvcBit(lk') = 0]_vars

----------------------------------------------------------------------------
(* Coordinator properties, continued *)

\* C13: ITEM_REMOVED for a compartment that is 'occupied' with a bound order
\* marks that order picked up and leaves the compartment 'available' with
\* currentOrderId NULL, touching no other row; ITEM_REMOVED for a compartment
\* without a bound order changes no compartment and no order.
C13_ItemRemoved ==
    [][op' = "ITEM_REMOVED" =>
         LET row == CompGet(arg')
         IN IF row.exists /\ row.currentOrderId # NullOrder
            THEN row.status = "occupied" =>
                   /\ orders'[row.currentOrderId].pickedUpAt
                   /\ \A o \in OrderIds \ {row.currentOrderId} : orders'[o] = orders[o]
                   /\ comps'[arg'].status = "available"
                   /\ comps'[arg'].currentOrderId = NullOrder
                   /\ \A c \in DOMAIN comps \ {arg'} : comps'[c] = comps[c]
            ELSE comps' = comps /\ orders' = orders]_vars

\* an order was picked up from an occupied compartment
C13_Witness ==
    /\ op = "ITEM_REMOVED"
    /\ CompGet(arg).exists
    /\ comps[arg].status = "available" /\ comps[arg].currentOrderId = NullOrder
    /\ \E o \in OrderIds : orders[o].pickedUpAt /\ orders[o].compartmentId = arg

\* C14: on an existing compartment, MOTOR_FAULT and SAFETY_TRIPPED set the
\* status to 'fault' whatever it was, and MOTOR_FAULT_CLEARED and
\* SAFETY_CLEARED set it to 'available'.
C14_FaultEvents ==
    [][/\ (op' \in {"MOTOR_FAULT", "SAFETY_TRIPPED"} /\ CompGet(arg').exists)
          => comps'[arg'].status = "fault"
       /\ (op' \in {"MOTOR_FAULT_CLEARED", "SAFETY_CLEARED"} /\ CompGet(arg').exists)
          => comps'[arg'].status = "available"]_vars

\* a safety trip hit a compartment holding a loaded order
C14_Witness ==
    /\ op = "SAFETY_TRIPPED"
    /\ CompGet(arg).exists
    /\ comps[arg].status = "fault"
    /\ comps[arg].currentOrderId # NullOrder

\* the coordinator's status of a compartment agrees with a reported sensor
\* record: 'occupied' only with an item inside, 'available' only without
StatusAgrees(status, s) ==
    /\ status = "occupied" => s.occupied
    /\ status = "available" => ~s.occupied

\* C15: once a heartbeat of a registered column has been processed, the
\* status of each of its compartments agrees with the sensors it reported.
C15_Reconciled ==
    (op = "heartbeat" /\ RegistryGet(arg).known) =>
       \A i \in DOMAIN registry[arg].sensors :
          CompGet(CompartmentIdOf(arg, i)).exists =>
             StatusAgrees(comps[CompartmentIdOf(arg, i)].status, registry[arg].sensors[i])

----------------------------------------------------------------------------
(* Controller properties: faults and the safety interlock *)

\* C16: once the state machine is in FAULT, no update(), unlock(), lock(),
\* startSanitize() or output toggle moves it out of FAULT.
C16_FaultTerminal ==
    [][lk.state = "FAULT" => lk'.state = "FAULT"]_vars

SafetyOkBit(l) == Bit(l.inp, 6) = 1

\* C17: unlock() and lock() called while the safety sensor is not asserted or
\* the motor-fault sensor is asserted return false with a safety error and
\* change neither the state nor any output.
C17_SafetyInterlock ==
    [][(op' \in {"unlock", "lock"} /\ (~SafetyOkBit(lk) \/ MotorFaultBit(lk)))
          => /\ ret' = "false"
             /\ lk'.lastError \in {"Safety tripped", "Motor fault"}
             /\ lk'.state = lk.state
             /\ lk'.out = lk.out /\ lk'.driven = lk.driven
             /\ lk'.opStart = lk.opStart]_vars

----------------------------------------------------------------------------
(* Reservation properties *)

\* an unlock request to compartment c was answered with success
UnlockDelivered(c, requests) ==
    \E i \in DOMAIN requests :
       /\ requests[i].endpoint = "unlock" /\ requests[i].result = "ok"
       /\ requests[i].to = comps[c].columnId
       /\ requests[i].index = comps[c].lockerIndex

Candidates(size) ==
    {id \in DOMAIN comps : /\ comps[id].exists
                           /\ comps[id].status = "available"
                           /\ size # "any" => comps[id].size = size}

\* a comes before b in the order by column, then by index
Precedes(a, b) ==
    \/ ColumnRank(comps[a].columnId) < ColumnRank(comps[b].columnId)
    \/ /\ comps[a].columnId = comps[b].columnId
       /\ comps[a].lockerIndex < comps[b].lockerIndex

\* C19: an assign request without a compartment reserves the first 'available'
\* compartment in the order by column, then index (among those of the
\* requested size when a size is given) and no other compartment changes; when
\* there is none it fails with 'No available compartments' and no compartment
\* and no order changes.
C19_AutoAssign ==
    [][op' = "assignAuto" =>
         LET cands == Candidates(arg'[1])
         IN IF cands = {}
            THEN ret' = "No available compartments" /\ comps' = comps /\ orders' = orders
            ELSE \E c \in cands :
                    /\ \A d \in cands \ {c} : Precedes(c, d)
                    /\ ret' = "success"
                    /\ comps'[c].status = "reserved"
                    /\ \E o \in OrderIds : /\ comps'[c].currentOrderId = o
                                           /\ orders'[o].compartmentId = c
                    /\ \A d \in DOMAIN comps \ {c} : comps'[d] = comps[d]]_vars

\* a sized request skipped the taken first column's first locker and took its
\* second locker while the second column was free
C19_Witness ==
    /\ op = "assignAuto" /\ ret = "success" /\ arg = <<"M">>
    /\ comps[<<"COL", "001", "0">>].exists
    /\ comps[<<"COL", "001", "0">>].status = "reserved"
    /\ comps[<<"COL", "001", "1">>].status = "reserved"
    /\ comps[<<"COL2", "0">>].exists
    /\ comps[<<"COL2", "0">>].status = "available"

\* C20: markOrderLoaded fails with 'Order not assigned to locker' and changes
\* no order and no compartment when the order has no compartment; otherwise it
\* sets the order's compartment to 'occupied', and that compartment is bound
\* to this order (its currentOrderId is this order).
C20_MarkLoaded ==
    [][op' = "markLoaded" =>
         LET orderId == arg'[1]
             c       == orders[orderId].compartmentId
         IN IF c = NullId
            THEN ret' = "Order not assigned to locker" /\ comps' = comps /\ orders' = orders
            ELSE /\ ret' = "success"
                 /\ CompGet(c).exists => /\ comps'[c].status = "occupied"
                                         /\ comps[c].currentOrderId = orderId]_vars

----------------------------------------------------------------------------
(* Coordinator properties: liveness of the columns *)

\* C21: right after the coordinator has answered success to an announce or a
\* heartbeat of column X, X is registered, its lastSeen is the current time,
\* its isOnline flag is true and isColumnOnline(X) is true.
C21_OnlineRefresh ==
    (op \in {"announce", "heartbeat"} /\ ret = "success") =>
       /\ RegistryGet(arg).known
       /\ registry[arg].lastSeen = clock
       /\ registry[arg].isOnline
       /\ isColumnOnline(arg)

----------------------------------------------------------------------------
(* Controller properties: busy states, timeouts, sanitize requests *)

BusyStates == {"UNLOCKING", "CLOSING", "SANITIZING"}

\* C28: while the state is UNLOCKING, CLOSING or SANITIZING each of unlock(),
\* lock() and startSanitize() returns false and leaves the state, _opStart,
\* _sanitizeEnd and the outputs as they were.
C28_BusyRejects ==
    [][(op' \in {"unlock", "lock", "startSanitize"} /\ lk.state \in BusyStates)
          => /\ ret' = "false"
             /\ lk'.state = lk.state
             /\ lk'.opStart = lk.opStart /\ lk'.sanitizeEnd = lk.sanitizeEnd
             /\ lk'.out = lk.out /\ lk'.driven = lk.driven]_vars

StepBit(l) == Bit(l.out, 4)

\* C29: an update() of an UNLOCKING compartment that samples no motor fault
\* leaves it OPEN with the step output cleared when door-open is sampled;
\* otherwise it leaves it in FAULT with every output zero and the error
\* "Open timeout" exactly when more than MOTOR_TIMEOUT_MS have passed since
\* _opStart, and UNLOCKING otherwise.  No update() leaves a compartment
\* UNLOCKING or CLOSING with more than MOTOR_TIMEOUT_MS on its timer.
C29_MotionTimeout ==
    [][op' = "update" =>
         /\ (lk.state = "UNLOCKING" /\ ~MotorFaultBit(lk')) =>
               IF DoorOpenBit(lk')
               THEN lk'.state = "OPEN" /\ StepBit(lk') = 0
               ELSE IF Sub32(now, lk.opStart) > MOTOR_TIMEOUT_MS
               THEN /\ lk'.state = "FAULT" /\ lk'.lastError = "Open timeout"
                    /\ lk'.out = 0 /\ lk'.driven = 0
               ELSE lk'.state = "UNLOCKING" /\ lk'.opStart = lk.opStart
         /\ lk'.state \in {"UNLOCKING", "CLOSING"} =>
               Sub32(now, lk'.opStart) <= MOTOR_TIMEOUT_MS]_vars

\* an opening that ran into its timeout
C29_Witness ==
    /\ op = "update" /\ lk.state = "FAULT" /\ lk.lastError = "Open timeout"
    /\ ~DoorOpenBit(lk) /\ ~MotorFaultBit(lk)
    /\ Sub32(now, lk.opStart) > MOTOR_TIMEOUT_MS

\* C30: startSanitize(d) returns true exactly when door-closed is asserted and
\* the state is none of UNLOCKING, CLOSING, SANITIZING; then the UV output is
\* on, _sanitizeEnd is millis() + d (in the counter's arithmetic) and the state
\* is SANITIZING; when it returns false the state, _sanitizeEnd and the outputs
\* are as they were.
C30_StartSanitize ==
    [][op' = "startSanitize" =>
         /\ ret' = "true" <=> (DoorClosedBit(lk) /\ lk.state \notin BusyStates)
         /\ ret' = "true" =>
               /\ lk'.state = "SANITIZING"
               /\ UvcBit(lk') = 1 /\ Bit(lk'.driven, OUT_UVC) = 1
               /\ \E d \in SanitizeDurations : lk'.sanitizeEnd = Add32(now, d)
         /\ ret' # "true" =>
               /\ lk'.state = lk.state /\ lk'.sanitizeEnd = lk.sanitizeEnd
               /\ lk'.out = lk.out /\ lk'.driven = lk.driven]_vars

\* a cycle started, after some uptime, on a compartment that had faulted
C30_Witness ==
    /\ op = "startSanitize" /\ ret = "true"
    /\ lk.state = "SANITIZING" /\ now > 0 /\ lk.sanitizeEnd > now
    /\ lk.lastError = "Open timeout"

----------------------------------------------------------------------------
(* Shift-register bus properties *)

Asserted(p) == {i \in DOMAIN p.cs : p.cs[i] = 1}

\* C27: over any sequence of writeOutputs / readInputs / setOutput calls on
\* all compartments, after every pin operation at most one chip-select is
\* asserted; an operation of a write on SR_CLK, SR_MOSI or SR_LATCH happens
\* only while the chip-select of the call's compartment (and no other) is
\* asserted; and when a call has returned every chip-select is low.
C27_ChipSelect ==
    [][/\ Cardinality(Asserted(pins')) <= 1
       /\ (pins'.pc # pins.pc /\ pins'.last.part = "write"
              /\ pins'.last.pin \in {"CLK", "MOSI", "LATCH"})
             => Asserted(pins) = {pins.idx} /\ Asserted(pins') = {pins.idx}
       /\ pins'.fn = "idle" => Asserted(pins') = {}]_vars

\* a readInputs on the second compartment has returned after re-asserting its
\* outputs, which an earlier setOutput had changed
C27_Witness ==
    /\ op = "readInputs" /\ pins.fn = "idle" /\ pins.idx = 1
    /\ pins.pc = Len(BusProgram("readInputs", pins.data))
    /\ pins.outs[1] = 2 /\ pins.outs[0] = 165
    /\ pins.last = PinOp("CS", 0, "write")

----------------------------------------------------------------------------
(* Synchronization client properties *)

\* positions in the messages of the last pass that went to an endpoint
PostedTo(n, endpoint) == {k \in DOMAIN n.posted : n.posted[k].endpoint = endpoint}

Acknowledged(n, k) == n.posted[k].outcome \in {"200", "201"}

\* C22: the announced flag turns true only in a pass whose announce was
\* acknowledged; an announce is attempted only while the flag is false and
\* more than ANNOUNCE_RETRY after the previous attempt, and no heartbeat is
\* sent while the flag is false; while it is true (and the link is up) a
\* heartbeat is sent exactly on the passes that come more than
\* HEARTBEAT_INTERVAL after the previous heartbeat.
C22_SyncClient ==
    [][/\ (net'.announced /\ ~net.announced) =>
             /\ op' = "loop"
             /\ \E k \in PostedTo(net', "announce") : Acknowledged(net', k)
       /\ op' = "loop" =>
             /\ Cardinality(PostedTo(net', "announce")) <= 1
             /\ IF PostedTo(net', "announce") # {}
                THEN /\ ~net.announced
                     /\ Sub32(now, net.lastAnnounce) > ANNOUNCE_RETRY
                     /\ net'.lastAnnounce = now
                ELSE net'.lastAnnounce = net.lastAnnounce
             /\ ~net'.announced => PostedTo(net', "heartbeat") = {}
             /\ (net'.announced /\ ret' = "synced") =>
                   (PostedTo(net', "heartbeat") # {}
                       <=> Sub32(now, net.lastHeartbeat) > HEARTBEAT_INTERVAL)
             /\ IF PostedTo(net', "heartbeat") # {}
                THEN net'.lastHeartbeat = now
                ELSE net'.lastHeartbeat = net.lastHeartbeat]_vars

\* a later heartbeat of a column whose first announce had failed
C22_Witness ==
    /\ op = "loop" /\ ret = "synced" /\ net.announced
    /\ PostedTo(net, "heartbeat") # {} /\ PostedTo(net, "announce") = {}
    /\ net.lastAnnounce > 2 * ANNOUNCE_RETRY
    /\ net.lastHeartbeat > net.lastAnnounce + HEARTBEAT_INTERVAL

\* C23: a pass that finds the link down clears the announced flag; no
\* heartbeat is sent while the flag is clear; and once the link is back up
\* after a detected loss the column announces again (unless the link drops
\* once more first).
C23_LinkRecovery ==
    /\ []((op = "loop" /\ ret = "link lost") => ~net.announced)
    /\ []((op = "loop" /\ ~net.announced) => PostedTo(net, "heartbeat") = {})
    /\ []((net.lost /\ net.link = "ON" /\ ~net.announced)
             => <>(\/ net.link = "OFF"
                   \/ op = "loop" /\ PostedTo(net, "announce") # {}))

OccupiedBit(l) == Bit(l.inp, 4) = 0

\* the events the last pass sent
EventsOf(n) == {n.posted[k].event : k \in PostedTo(n, "event")}

\* the events the edges between the snapshot prev and the sensors of l call for
EdgesCalledFor(l, prev) ==
    (IF DoorClosedBit(l) /\ Bit(prev, 0) = 0 THEN {"DOOR_CLOSED"} ELSE {})
      \cup (IF DoorOpenBit(l) /\ Bit(prev, 1) = 0 THEN {"DOOR_OPENED"} ELSE {})
      \cup (IF OccupiedBit(l) /\ Bit(prev, 2) = 0 THEN {"ITEM_PLACED"} ELSE {})
      \cup (IF ~OccupiedBit(l) /\ Bit(prev, 2) = 1 THEN {"ITEM_REMOVED"} ELSE {})

\* C24 (as stated): on every pass of the loop on which the compartment's
\* door-closed bit has changed to true, its door-open bit has changed to true
\* or its occupancy bit has changed against the previous snapshot, the event
\* naming that transition is sent in that pass.
C24_Original ==
    [][op' = "loop" => EdgesCalledFor(lk', net.prev) \subseteq EventsOf(net')]_vars

\* C24 (amended): the same on every pass on which the network is connected
\* and the link is up; on any other pass no event is sent and the previous
\* snapshot stays as it was.
C24_Amended ==
    [][op' = "loop" =>
         IF ret' = "synced"
         THEN EdgesCalledFor(lk', net.prev) \subseteq EventsOf(net')
         ELSE EventsOf(net') = {} /\ net'.prev = net.prev]_vars

\* the door was shut on a parcel: two edges reported in one pass
C24_Witness ==
    /\ op = "loop" /\ ret = "synced"
    /\ EventsOf(net) = {"DOOR_CLOSED", "ITEM_PLACED"}
    /\ DoorClosedBit(lk) /\ OccupiedBit(lk)

\* C25: a pass sends an event only for an edge against the previous
\* snapshot and sends it once; whether or not the sends succeed, the pass
\* leaves the snapshot equal to the sensors, so that no edge is left over
\* to be sent again on a later pass.
C25_AtMostOnce ==
    [][op' = "loop" =>
         /\ EventsOf(net') \subseteq EdgesCalledFor(lk', net.prev)
         /\ Cardinality(PostedTo(net', "event")) = Cardinality(EventsOf(net'))
         /\ ret' = "synced" => EdgesCalledFor(lk', net'.prev) = {}]_vars

\* an event whose POST found no connection, and the edge is gone all the same
C25_Witness ==
    /\ op = "loop" /\ ret = "synced"
    /\ \E k \in PostedTo(net, "event") :
          net.posted[k].event = "ITEM_PLACED" /\ net.posted[k].outcome = "refused"
    /\ OccupiedBit(lk) /\ EdgesCalledFor(lk, net.prev) = {}

\* C26: in every pass of the loop the compartment's update() runs exactly
\* once, at most one inbound request is served, and at most one outbound
\* message (announce, heartbeat or event) is sent.
C26_LoopShape ==
    [][op' = "loop" =>
         /\ net'.updates = 1
         /\ net'.served <= 1
         /\ Len(net'.posted) <= 1]_vars

----------------------------------------------------------------------------
(* Controller properties: the direct output toggles and the UV lamp *)

\* the output bit a setter drives
OutputBitOf(setter) ==
    CASE setter = "setLED" -> 1 [] setter = "setUVC" -> 2 [] setter = "setHeater" -> 3

Setters == {"setLED", "setUVC", "setHeater"}

\* C31: in whatever state the compartment is, setLED / setUVC / setHeater
\* makes the addressed output bit equal to the requested value, in the stored
\* word and on the pins, leaves every other output bit as it was, and leaves
\* the state, _opStart and _sanitizeEnd as they were.
C31_OutputToggles ==
    [][op' \in Setters =>
         LET b == OutputBitOf(op')
         IN /\ Bit(lk'.out, b) = (IF ret' = "true" THEN 1 ELSE 0)
            /\ \A i \in (0..7) \ {b} : Bit(lk'.out, i) = Bit(lk.out, i)
            /\ lk'.driven = lk'.out
            /\ lk'.state = lk.state
            /\ lk'.opStart = lk.opStart /\ lk'.sanitizeEnd = lk.sanitizeEnd]_vars

\* the heater switched on in a faulted compartment, next to no other output
C31_Witness ==
    /\ op = "setHeater" /\ ret = "true"
    /\ lk.state = "FAULT" /\ lk.out = 8 /\ lk.driven = 8

\* C38: with no direct toggle of the UV output, the UV output is on only
\* while the state is SANITIZING.
C38_UvConfined ==
    Bit(lk.out, OUT_UVC) = 1 => lk.state = "SANITIZING"

----------------------------------------------------------------------------
(* Coordinator properties: relays inside the reservation operations *)

\* the requests of an operation whose relays did not all succeed: none was
\* made, or one ended without success
RelayFailed(requests) ==
    requests = <<>> \/ \E i \in DOMAIN requests : requests[i].result # "ok"

RequestsTo(requests, endpoint) ==
    {i \in DOMAIN requests : requests[i].endpoint = endpoint}

\* C32: when the display relay of an assign that passed its checks fails (no
\* request made, timed out or refused), the assign still returns success,
\* the compartment is reserved for the order, the order holds the compartment
\* and a pickup code, and at most one request was made; when a relay of
\* markLoaded fails, markLoaded still returns success, the compartment is
\* 'occupied', no order row changes, and each relay was attempted at most once.
C32_NoRollback ==
    [][/\ (/\ op' = "assign" /\ CompGet(arg').exists
            /\ comps[arg'].status = "available" /\ RelayFailed(sent'))
          => /\ ret' = "success"
             /\ Len(sent') <= 1
             /\ comps'[arg'].status = "reserved"
             /\ \E o \in OrderIds : /\ comps'[arg'].currentOrderId = o
                                    /\ orders'[o].compartmentId = arg'
                                    /\ orders'[o].pickupCode \in generatePickupCode
       /\ (/\ op' = "markLoaded" /\ orders[arg'[1]].compartmentId # NullId
            /\ RelayFailed(sent'))
          => LET c == orders[arg'[1]].compartmentId
             IN /\ ret' = "success"
                /\ Cardinality(RequestsTo(sent', "display")) <= 1
                /\ Cardinality(RequestsTo(sent', "output")) <= 1
                /\ CompGet(c).exists => comps'[c].status = "occupied"
                /\ orders' = orders]_vars

\* an order was marked loaded while its column had fallen silent
C32_Witness ==
    /\ op = "markLoaded" /\ ret = "success" /\ sent = <<>>
    /\ \E o \in OrderIds :
          /\ arg = <<o>> /\ orders[o].compartmentId = <<"COL2", "0">>
          /\ comps[<<"COL2", "0">>].status = "occupied"
          /\ comps[<<"COL2", "0">>].currentOrderId = o
    /\ registry[<<"COL2">>].known /\ ~isColumnOnline(<<"COL2">>)

\* C33: a relay for a compartment that an announce of column C created with
\* index i, made while C is online, issues one request, addressed to column
\* C with locker index i.
C33_AddressRoundTrip ==
    (op = "relay" /\ CompGet(arg).exists /\ isColumnOnline(comps[arg].columnId)) =>
       /\ Len(sent) = 1
       /\ sent[1].to = comps[arg].columnId
       /\ sent[1].index = comps[arg].lockerIndex

----------------------------------------------------------------------------
(* Coordinator properties: the binding between orders and compartments *)

BoundTo(c) == comps[c].currentOrderId

Bound(c) == CompGet(c).exists /\ BoundTo(c) # NullOrder

\* C34: no two compartments are bound to the same order, and the order a
\* compartment is bound to names that compartment as its compartment.
C34_OnePerOrder ==
    /\ \A c1, c2 \in DOMAIN comps :
          (c1 # c2 /\ Bound(c1) /\ Bound(c2)) => BoundTo(c1) # BoundTo(c2)
    /\ \A c \in DOMAIN comps :
          Bound(c) => orders[BoundTo(c)].compartmentId = c

\* C35: a compartment whose status is 'available' is bound to no order.
C35_AvailableUnbound ==
    \A c \in DOMAIN comps :
       (CompGet(c).exists /\ comps[c].status = "available") => BoundTo(c) = NullOrder

----------------------------------------------------------------------------
(* Synchronization client properties: the first pass after boot *)

\* the snapshot was packed from sampled sensors (six bits), not left by setup()
Observed(prev) == prev < Pow2(6)

\* C36: a pass sends ITEM_REMOVED only when an earlier pass had observed the
\* compartment occupied and it is not occupied now.
C36_NoSpuriousRemoval ==
    [][(op' = "loop" /\ "ITEM_REMOVED" \in EventsOf(net'))
          => /\ Observed(net.prev) /\ Bit(net.prev, 2) = 1
             /\ ~OccupiedBit(lk')]_vars

----------------------------------------------------------------------------
(* Coordinator properties: faults *)

\* C37: a compartment whose status is 'fault' leaves that status only by a
\* MOTOR_FAULT_CLEARED or SAFETY_CLEARED event.
C37_FaultSticky ==
    [][\A c \in DOMAIN comps :
          (CompGet(c).exists /\ comps[c].status = "fault" /\ comps'[c].status # "fault")
          => op' \in {"MOTOR_FAULT_CLEARED", "SAFETY_CLEARED"}]_vars

----------------------------------------------------------------------------
(* Coordinator properties: restarts *)

\* the column has announced at some time: the rows its announce created exist
HasAnnounced(c) == CompGet(CompartmentIdOf(c, 0)).exists

\* C39: a column that has announced and keeps sending heartbeats is
\* eventually registered and online at the coordinator, also after the
\* coordinator's registry was emptied by a restart.
C39_ReRegistration ==
    \A c \in ColumnIds :
       [](HasAnnounced(c)
            => <>(RegistryGet(c).known /\ registry[c].isOnline /\ isColumnOnline(c)))

----------------------------------------------------------------------------
(* Reservation properties: loading *)

\* C40: as long as markOrderLoaded has been called for no order, whatever
\* events the columns report, no pickup call validates its code.
C40_NoPickupBeforeLoading ==
    op = "pickup" => ret # "success"

====
